---- MODULE Spec2Model ----
(***************************************************************************)
(* Segmentation-and-coverage engine of practice-zh.                        *)
(*                                                                         *)
(* Strings are sequences of code points (integers).  Every character used  *)
(* here lies in the Basic Multilingual Plane, where a UTF-16 code unit is  *)
(* a code point, so [...str], str.length and str.slice agree on positions. *)
(* The segmenter (nodejieba.cut) is a black box: a sentence is given as    *)
(* the sequence of segments the segmenter returns for it, and its text is  *)
(* the concatenation of those segments.                                    *)
(***************************************************************************)
EXTENDS Integers, Sequences, FiniteSets, TLC

VARIABLES
    pc,          \* position of the running script
    token,       \* splitter input: the string to split
    known,       \* splitter input: the set of known words
    pieces,      \* splitter output: sequence of [text, known]
    corpus,      \* rows of sentences_tatoeba: [id, zh], zh as its segments
    cedictMap,   \* dictionary: simplified word -> CC-CEDICT entry
    hskWords,    \* set of HSK words (vendor list)
    knownWords,  \* in-memory Vocabulary Set of the full pipeline
    allEnrichedWords,  \* cumulative enriched entries across iterations
    iteration,         \* loop counter of the full pipeline
    previousUnknowns,  \* unknown count of the previous round, or Infinity
    files,             \* contents of the files under misc/ the pipeline uses
    unknownCounts,     \* history: count returned by each aggregation pass
    lookups,           \* history: number of resolution passes run
    zh,                \* coverage input: a sentence, as its segments
    userWordBank,      \* coverage input: the learner's vocabulary
    coverage,          \* coverage output of calculateCoverage
    pinyinInput,       \* tone-mark input: numbered pinyin
    toneMarks,         \* tone-mark output of numericToToneMarks
    cedictLines,       \* lines of the CC-CEDICT file
    sources,           \* which input sources can be read
    minCoverage,       \* quiz selection: lower threshold
    maxCoverage,       \* quiz selection: upper threshold
    quizLimit,         \* quiz selection: limit argument (0 for null)
    candidates,        \* quiz selection: result of findQuizSentences
    wordLists,         \* simplified_zh of words_hsk and words_additional
    attempt,           \* getRandomSentence: loop counter
    draws,             \* history: number of sentences getRandomSentence drew
    quizSentence       \* getRandomSentence: returned value

splitVars == <<token, known, pieces>>
pipelineVars == <<corpus, cedictMap, hskWords, knownWords, allEnrichedWords,
                  iteration, previousUnknowns, files, unknownCounts, lookups>>
coverageVars == <<zh, userWordBank, coverage>>
loaderVars == <<pinyinInput, toneMarks, cedictLines, sources>>
quizVars == <<minCoverage, maxCoverage, quizLimit, candidates, wordLists,
              attempt, draws, quizSentence>>
vars == <<pc, splitVars, pipelineVars, coverageVars, loaderVars, quizVars>>

----------------------------------------------------------------------------
(* Generic helpers on sequences *)

RECURSIVE Concat(_)
\* Concatenation of a sequence of strings.
Concat(ss) == IF ss = <<>> THEN <<>> ELSE Head(ss) \o Concat(Tail(ss))

RECURSIVE SumSeq(_)
SumSeq(ns) == IF ns = <<>> THEN 0 ELSE Head(ns) + SumSeq(Tail(ns))

\* All strings over alphabet A of length exactly n / at most n.
StringsOfLen(A, n) == [1..n -> A]
StringsUpTo(A, n) == UNION {StringsOfLen(A, k) : k \in 0..n}

\* chars.slice(i, i + len).join("") with 0-based i
Slice(chars, i, len) == SubSeq(chars, i + 1, i + len)

----------------------------------------------------------------------------
(* Optimal token splitter: splitTokenIntoKnownAndUnknown *)

DefaultMaxWordLen == 6

\* dp = Array(n + 1).fill(null)
NullState ==
    [set |-> FALSE, covered |-> 0, pieces |-> 0, prev |-> -1,
     pieceText |-> <<>>, pieceKnown |-> FALSE]

\* dp[0]
StartState ==
    [set |-> TRUE, covered |-> 0, pieces |-> 0, prev |-> -1,
     pieceText |-> <<>>, pieceKnown |-> FALSE]

isBetterMorePieces(a, b) ==
    IF a.covered # b.covered THEN a.covered > b.covered
    ELSE a.pieces > b.pieces

isBetterFlipped(a, b) ==
    IF a.covered # b.covered THEN a.covered < b.covered
    ELSE a.pieces < b.pieces

isBetter(a, b) ==
    IF a.covered # b.covered THEN a.covered > b.covered
    ELSE a.pieces < b.pieces

RelaxLastWins(dp, j, state) == [dp EXCEPT ![j] = state]

\* if (!dp[j] || isBetter(state, dp[j])) dp[j] = state
Relax(dp, j, state) ==
    IF ~dp[j].set \/ isBetter(state, dp[j])
    THEN [dp EXCEPT ![j] = state]
    ELSE dp

\* Option 1: take chars[i] as a single unknown character
unknownState(dp, i, chars) ==
    [set |-> TRUE, covered |-> dp[i].covered, pieces |-> dp[i].pieces + 1,
     prev |-> i, pieceText |-> <<chars[i + 1]>>, pieceKnown |-> FALSE]

knownState(dp, i, len, chars) ==
    [set |-> TRUE, covered |-> dp[i].covered + len,
     pieces |-> dp[i].pieces + 1, prev |-> i,
     pieceText |-> Slice(chars, i, len), pieceKnown |-> TRUE]

RECURSIVE MatchKnownWords(_, _, _, _, _, _)
\* Option 2: for (len = 1; len <= maxWordLen && i + len <= n; len++)
MatchKnownWords(dp, i, len, chars, knownSet, maxWordLen) ==
    IF ~(len <= maxWordLen /\ i + len <= Len(chars)) THEN dp
    ELSE IF Slice(chars, i, len) \notin knownSet
         THEN MatchKnownWords(dp, i, len + 1, chars, knownSet, maxWordLen)
         ELSE MatchKnownWords(Relax(dp, i + len, knownState(dp, i, len, chars)),
                              i, len + 1, chars, knownSet, maxWordLen)

RECURSIVE FillTable(_, _, _, _, _)
\* for (i = 0; i < n; i++)
FillTable(dp, i, chars, knownSet, maxWordLen) ==
    IF ~(i < Len(chars)) THEN dp
    ELSE IF ~dp[i].set
         THEN FillTable(dp, i + 1, chars, knownSet, maxWordLen)
         ELSE FillTable(
                MatchKnownWords(Relax(dp, i + 1, unknownState(dp, i, chars)),
                                i, 1, chars, knownSet, maxWordLen),
                i + 1, chars, knownSet, maxWordLen)

DPTable(chars, knownSet, maxWordLen) ==
    FillTable([j \in 0..Len(chars) |-> IF j = 0 THEN StartState ELSE NullState],
              0, chars, knownSet, maxWordLen)

RECURSIVE Backtrack(_, _)
\* while (position > 0) { push; position = state.prev }, then reverse()
Backtrack(dp, position) ==
    IF ~(position > 0) THEN <<>>
    ELSE IF ~dp[position].set THEN <<>>
    ELSE Append(Backtrack(dp, dp[position].prev),
                [text |-> dp[position].pieceText,
                 known |-> dp[position].pieceKnown])

\* One step of the merge loop: append piece to merged.
MergeStepReplaceText(merged, piece) ==
    IF merged # <<>> /\ merged[Len(merged)].known = piece.known
    THEN [merged EXCEPT ![Len(merged)].text = piece.text]
    ELSE Append(merged, piece)

MergeStepUnknownOnly(merged, piece) ==
    IF merged # <<>> /\ merged[Len(merged)].known = piece.known /\ ~piece.known
    THEN [merged EXCEPT ![Len(merged)].text = @ \o piece.text]
    ELSE Append(merged, piece)

MergeStep(merged, piece) ==
    IF merged # <<>> /\ merged[Len(merged)].known = piece.known
    THEN [merged EXCEPT ![Len(merged)].text = @ \o piece.text]
    ELSE Append(merged, piece)

RECURSIVE MergePieces(_, _)
\* for (const piece of piecesReversed) ...
MergePieces(merged, rest) ==
    IF rest = <<>> THEN merged
    ELSE MergePieces(MergeStep(merged, Head(rest)), Tail(rest))

\* The path chosen by the dynamic programme, before merging.
piecesReversed(tok, knownSet, maxWordLen) ==
    Backtrack(DPTable(tok, knownSet, maxWordLen), Len(tok))

splitTokenIntoKnownAndUnknown(tok, knownSet, maxWordLen) ==
    MergePieces(<<>>, piecesReversed(tok, knownSet, maxWordLen))

----------------------------------------------------------------------------
(* Variables of the other scripts while one script runs *)

Infinity == [finite |-> FALSE, value |-> 0]
Finite(n) == [finite |-> TRUE, value |-> n]

NoFile == [exists |-> FALSE, content |-> <<>>]
File(content) == [exists |-> TRUE, content |-> content]

\* PATHS.unknownChunksTsv, PATHS.unknownChunksCedict,
\* PATHS.unknownChunksNotFound, and the _enriched.json / _notfound.json
\* files enrichCustomWords derives from PATHS.unknownChunksCedict
NoFiles ==
    [unknownChunksTsv |-> NoFile, unknownChunksCedict |-> NoFile,
     unknownChunksNotFound |-> NoFile, enriched |-> NoFile,
     enrichedNotFound |-> NoFile]

PipelineIdle ==
    /\ corpus = <<>>
    /\ cedictMap = <<>>
    /\ hskWords = {}
    /\ knownWords = {}
    /\ allEnrichedWords = <<>>
    /\ iteration = 0
    /\ previousUnknowns = Infinity
    /\ files = NoFiles
    /\ unknownCounts = <<>>
    /\ lookups = 0

SplitIdle ==
    /\ token = <<>>
    /\ known = {}
    /\ pieces = <<>>

NoCoverage ==
    [score |-> [num |-> 0, den |-> 1], totalSegments |-> 0,
     knownSegments |-> 0, unknownSegments |-> <<>>]

CoverageIdle ==
    /\ zh = <<>>
    /\ userWordBank = {}
    /\ coverage = NoCoverage

\* Every source is present and readable.
AllSources ==
    [cedict |-> TRUE, hsk |-> TRUE, additional |-> TRUE, corpus |-> TRUE]

LoaderIdle ==
    /\ pinyinInput = <<>>
    /\ toneMarks = <<>>
    /\ cedictLines = <<>>
    /\ sources = AllSources

\* undefined
Undefined == [defined |-> FALSE]

QuizIdle ==
    /\ minCoverage = [num |-> 0, den |-> 1]
    /\ maxCoverage = [num |-> 0, den |-> 1]
    /\ quizLimit = 0
    /\ candidates = <<>>
    /\ wordLists = {}
    /\ attempt = 0
    /\ draws = 0
    /\ quizSentence = Undefined

----------------------------------------------------------------------------
(* Inputs of the splitter specification *)

MaxTokenLen == 5
MaxKnownWords == 2

\* U+4F60 U+597D
NiHao == <<20320, 22909>>
Ni == NiHao[1]
Hao == NiHao[2]

SplitChars == {Ni, Hao}

\* U+739B U+4E3D U+5F88 U+9AD8
MaLiHenGao == <<29595, 20029, 24456, 39640>>
HenWord == <<24456>>
GaoWord == <<39640>>

LongTokens ==
    { <<Ni, Hao, Ni, Hao, Ni, Hao>>,
      <<Ni, Hao, Ni, Hao, Ni, Hao, Ni>>,
      <<Ni, Ni, Ni, Ni, Ni, Ni, Ni>> }

SplitTokens == StringsUpTo(SplitChars, MaxTokenLen) \cup LongTokens \cup {MaLiHenGao}

WordPool ==
    StringsOfLen(SplitChars, 1) \cup StringsOfLen(SplitChars, 2)
        \cup { <<Ni, Hao, Ni>>, HenWord, GaoWord }

KnownSets(tok) ==
    { S \cup T : S \in {X \in SUBSET WordPool : Cardinality(X) <= MaxKnownWords},
                 T \in {{}, {tok}} }

SplitInit ==
    /\ pc = "split"
    /\ token \in SplitTokens
    /\ known \in KnownSets(token)
    /\ pieces = <<>>
    /\ PipelineIdle
    /\ CoverageIdle
    /\ LoaderIdle
    /\ QuizIdle

\* One call of splitTokenIntoKnownAndUnknown(token, known)
DoSplit ==
    /\ pc = "split"
    /\ pieces' = splitTokenIntoKnownAndUnknown(token, known, DefaultMaxWordLen)
    /\ pc' = "splitDone"
    /\ UNCHANGED <<token, known, pipelineVars, coverageVars, loaderVars,
                   quizVars>>

SplitNext == DoSplit

SpecSplit == SplitInit /\ [][SplitNext]_vars

----------------------------------------------------------------------------
(* Properties of the splitter *)

PieceTexts(ps) == [k \in 1..Len(ps) |-> ps[k].text]

\* Total length of the known pieces of a result.
KnownLength(ps) ==
    SumSeq([k \in 1..Len(ps) |-> IF ps[k].known THEN Len(ps[k].text) ELSE 0])

\* C1: Losslessness - concatenating the piece texts of split(token, known)
\* in order gives exactly the token.
C1_Lossless ==
    pc = "splitDone" => Concat(PieceTexts(pieces)) = token

C1_Witness ==
    /\ pc = "splitDone"
    /\ Len(pieces) >= 3
    /\ \E k \in 1..Len(pieces) : Len(pieces[k].text) >= 2

\* Code points of tok covered by known pieces when tok is cut at the
\* positions in cuts (a subset of 1..Len(tok)-1) and a piece counts as known
\* when it is an element of knownSet of at most maxLen code points.
DecompositionCoverage(tok, knownSet, cuts, maxLen) ==
    LET n == Len(tok)
        starts == {0} \cup cuts
        ends == cuts \cup {n}
        pieceStart(p) == CHOOSE a \in starts :
                            a < p /\ \A x \in starts : x < p => x <= a
        pieceEnd(p) == CHOOSE b \in ends :
                            b >= p /\ \A x \in ends : x >= p => b <= x
        isKnownPiece(a, b) ==
            b - a <= maxLen /\ SubSeq(tok, a + 1, b) \in knownSet
    IN  Cardinality({p \in 1..n : isKnownPiece(pieceStart(p), pieceEnd(p))})

CutSets(tok) == SUBSET (1..(Len(tok) - 1))

\* C2 (as claimed): no decomposition of the token into contiguous pieces,
\* a piece counting as known when it is any element of the known set, covers
\* strictly more code points than the known pieces of split(token, known).
C2_KnownMaximalAnyLength ==
    pc = "splitDone" =>
        \A cuts \in CutSets(token) :
            DecompositionCoverage(token, known, cuts, Len(token))
                <= KnownLength(pieces)

\* C2 (amended): no decomposition of the token whose known pieces are
\* elements of the known set of at most max_piece_length (6) code points
\* covers strictly more code points than the known pieces of
\* split(token, known).
C2_KnownMaximal ==
    pc = "splitDone" =>
        \A cuts \in CutSets(token) :
            DecompositionCoverage(token, known, cuts, DefaultMaxWordLen)
                <= KnownLength(pieces)

C2_Witness ==
    /\ pc = "splitDone"
    /\ KnownLength(pieces) >= 2
    /\ KnownLength(pieces) < Len(token)
    /\ \E cuts \in CutSets(token) :
          LET c == DecompositionCoverage(token, known, cuts, DefaultMaxWordLen)
          IN  c > 0 /\ c < KnownLength(pieces)

C4_ThreePieces ==
    (pc = "splitDone" /\ token = MaLiHenGao /\ known = {HenWord, GaoWord}) =>
        pieces = << [text |-> <<29595, 20029>>, known |-> FALSE],
                    [text |-> HenWord, known |-> TRUE],
                    [text |-> GaoWord, known |-> TRUE] >>

\* C5 (as claimed): a non-empty token that is itself in the known set is
\* returned as exactly one known piece holding the whole token.
C5_KnownTokenOnePieceAnyLength ==
    (pc = "splitDone" /\ token # <<>> /\ token \in known) =>
        pieces = << [text |-> token, known |-> TRUE] >>

\* C5 (amended): a non-empty token of at most max_piece_length (6) code
\* points that is itself in the known set is returned as exactly one known
\* piece holding the whole token.
C5_KnownTokenOnePiece ==
    (pc = "splitDone" /\ token # <<>> /\ token \in known
        /\ Len(token) <= DefaultMaxWordLen) =>
        pieces = << [text |-> token, known |-> TRUE] >>

C5_Witness ==
    /\ pc = "splitDone"
    /\ token \in known
    /\ Len(token) = DefaultMaxWordLen
    /\ \E w \in known : w # token /\ Len(w) = 2
    /\ pieces = << [text |-> token, known |-> TRUE] >>

----------------------------------------------------------------------------
(* Chinese text utilities (lib/chinese.js) *)

CHINESE_PUNCTUATION ==
    { 12290, 65292, 12289, 65307, 65306, 65311, 65281, 8220, 8221, 8216, 8217,
      65288, 65289, 12304, 12305, 12298, 12299, 8212, 8230, 183, 65374 }

\* code >= 0x4e00 && code <= 0x9fff
isCJK(char) == char >= 19968 /\ char <= 40959

isChinesePunctuation(str) == Len(str) = 1 /\ str[1] \in CHINESE_PUNCTUATION

\* /[A-Za-z0-9]/.test(str)
hasASCII(str) ==
    \E k \in 1..Len(str) :
        \/ str[k] \in 65..90
        \/ str[k] \in 97..122
        \/ str[k] \in 48..57

----------------------------------------------------------------------------
(* Delimited text: the hand-written TSV artifact misc/unknown_chunks.tsv *)

TAB == 9
NEWLINE == 10
COMMA == 44

\* "chunk\tcount\texample_ids"
TsvHeader ==
    << 99, 104, 117, 110, 107, 9, 99, 111, 117, 110, 116, 9,
       101, 120, 97, 109, 112, 108, 101, 95, 105, 100, 115 >>

RECURSIVE IntToString(_)
\* `${n}` for an integer n >= 0
IntToString(n) ==
    IF n < 10 THEN <<48 + n>>
    ELSE Append(IntToString(n \div 10), 48 + (n % 10))

RECURSIVE Join(_, _)
\* parts.join(sep)
Join(parts, sep) ==
    IF parts = <<>> THEN <<>>
    ELSE IF Len(parts) = 1 THEN parts[1]
    ELSE parts[1] \o sep \o Join(Tail(parts), sep)

\* str.split(sep) for a one-character separator: the fields between
\* consecutive separators, empty fields included.
Split(str, sep) ==
    LET at == {k \in 1..Len(str) : str[k] = sep}
        \* position of the j-th separator; 0 and Len(str) + 1 close the ends
        cut(j) == IF j = 0 THEN 0
                  ELSE IF j > Cardinality(at) THEN Len(str) + 1
                  ELSE CHOOSE p \in at : Cardinality({q \in at : q < p}) = j - 1
    IN  [j \in 1..(Cardinality(at) + 1) |->
            SubSeq(str, cut(j - 1) + 1, cut(j) - 1)]

IsWhiteSpace(c) == c \in {9, 10, 11, 12, 13, 32, 160, 12288, 65279}

\* str.trim()
Trim(str) ==
    LET keep == {k \in 1..Len(str) : ~IsWhiteSpace(str[k])}
    IN  IF keep = {} THEN <<>>
        ELSE SubSeq(str, CHOOSE a \in keep : \A k \in keep : a <= k,
                         CHOOSE b \in keep : \A k \in keep : k <= b)

RECURSIVE ParseDigits(_, _, _)
ParseDigits(str, k, acc) ==
    IF k <= Len(str) /\ str[k] \in 48..57
    THEN ParseDigits(str, k + 1, 10 * acc + (str[k] - 48))
    ELSE acc

\* parseInt(str, 10) of an unsigned decimal; NaN is represented as -1
parseInt(str) ==
    IF str # <<>> /\ str[1] \in 48..57 THEN ParseDigits(str, 1, 0) ELSE 0 - 1

\* A sort that is not stable: equal keys come out in reverse order.
SortedIndicesTiesReversed(keys) ==
    LET n == Len(keys)
        before(j, i) == keys[j] > keys[i] \/ (keys[j] = keys[i] /\ j > i)
        rank(i) == 1 + Cardinality({j \in 1..n : before(j, i)})
    IN  [p \in 1..n |-> CHOOSE i \in 1..n : rank(i) = p]

\* Indices of keys ordered by descending key, equal keys in their original
\* order: array.sort((a, b) => b.key - a.key), which is stable.
SortedIndicesDesc(keys) ==
    LET n == Len(keys)
        before(j, i) == keys[j] > keys[i] \/ (keys[j] = keys[i] /\ j < i)
        rank(i) == 1 + Cardinality({j \in 1..n : before(j, i)})
    IN  [p \in 1..n |-> CHOOSE i \in 1..n : rank(i) = p]

----------------------------------------------------------------------------
(* Step 2 of the pipeline: find unknown chunks *)

\* Body of the loop over segments: the unknown chunks of one segment.
segmentUnknownChunks(segment, knownSet) ==
    IF isChinesePunctuation(segment) THEN <<>>
    ELSE IF ~(\E k \in 1..Len(segment) : isCJK(segment[k])) THEN <<>>
    ELSE IF segment \in knownSet THEN <<>>
    ELSE LET ps == splitTokenIntoKnownAndUnknown(segment, knownSet, 6)
             unknownPiece(piece) ==
                 /\ ~piece.known
                 /\ ~(\A k \in 1..Len(piece.text) :
                        isChinesePunctuation(<<piece.text[k]>>))
         IN  IF ~(\E k \in 1..Len(ps) : ~ps[k].known) THEN <<>>
             ELSE PieceTexts(SelectSeq(ps, unknownPiece))

\* segments is nodejieba.cut(sentence)
findUnknownChunksInSentence(segments, knownSet) ==
    Concat([k \in 1..Len(segments) |->
                segmentUnknownChunks(segments[k], knownSet)])

\* The elements of a finite set of integers in ascending order.
Ascending(S) ==
    [p \in 1..Cardinality(S) |->
        CHOOSE x \in S : Cardinality({y \in S : y < x}) = p - 1]

\* Order of two occurrences <<sentence, position>> in the scan.
occursBefore(a, b) == a[1] < b[1] \/ (a[1] = b[1] /\ a[2] < b[2])

\* processed++ moved before the loop over chunks
chunkFrequencyOfIdAfterIncrement(chunks) ==
    LET occurrences == UNION {{<<k, j>> : j \in 1..Len(chunks[k])} :
                                  k \in 1..Len(chunks)}
        chunkAt(a) == chunks[a[1]][a[2]]
        firsts == {a \in occurrences :
                      ~(\E b \in occurrences :
                            occursBefore(b, a) /\ chunkAt(b) = chunkAt(a))}
    IN  [m \in 1..Cardinality(firsts) |->
            LET key == CHOOSE a \in firsts :
                          Cardinality({b \in firsts : occursBefore(b, a)}) = m - 1
            IN  [chunk |-> chunkAt(key),
                 sentenceIds |->
                     Ascending({b[1] : b \in {c \in occurrences :
                                                     chunkAt(c) = chunkAt(key)}})]]

\* chunkFrequency for the chunks found per scanned sentence: an
\* insertion-ordered Map chunk -> Set of ids, as a sequence of
\* [chunk, sentenceIds]. The id added for the k-th scanned sentence is the
\* value of processed at that time, k - 1. A key is inserted at the first
\* occurrence of its chunk; a Set keeps each id once, in insertion
\* (ascending) order.
chunkFrequencyOf(chunks) ==
    LET occurrences == UNION {{<<k, j>> : j \in 1..Len(chunks[k])} :
                                  k \in 1..Len(chunks)}
        chunkAt(a) == chunks[a[1]][a[2]]
        firsts == {a \in occurrences :
                      ~(\E b \in occurrences :
                            occursBefore(b, a) /\ chunkAt(b) = chunkAt(a))}
    IN  [m \in 1..Cardinality(firsts) |->
            LET key == CHOOSE a \in firsts :
                          Cardinality({b \in firsts : occursBefore(b, a)}) = m - 1
            IN  [chunk |-> chunkAt(key),
                 sentenceIds |->
                     Ascending({b[1] - 1 : b \in {c \in occurrences :
                                                     chunkAt(c) = chunkAt(key)}})]]

\* if (hasASCII(zh)) continue; left out
ScanSentencesNoSkip(sentences, knownSet) ==
    chunkFrequencyOf(
        [k \in 1..Len(sentences) |->
            findUnknownChunksInSentence(sentences[k].zh, knownSet)])

\* for (const { zh } of sentences): sentences with ASCII are skipped, the
\* others are scanned in order.
ScanSentences(sentences, knownSet) ==
    LET scanned == SelectSeq(sentences, LAMBDA s : ~hasASCII(Concat(s.zh)))
    IN  chunkFrequencyOf(
            [k \in 1..Len(scanned) |->
                findUnknownChunksInSentence(scanned[k].zh, knownSet)])

sortedChunks(sentences, knownSet) ==
    LET chunkFrequency == ScanSentences(sentences, knownSet)
        records == [k \in 1..Len(chunkFrequency) |->
                       [chunk |-> chunkFrequency[k].chunk,
                        count |-> Len(chunkFrequency[k].sentenceIds),
                        exampleIds |->
                            SubSeq(chunkFrequency[k].sentenceIds, 1,
                                   IF Len(chunkFrequency[k].sentenceIds) < 5
                                   THEN Len(chunkFrequency[k].sentenceIds)
                                   ELSE 5)]]
        order == SortedIndicesDesc([k \in 1..Len(records) |-> records[k].count])
    IN  [p \in 1..Len(records) |-> records[order[p]]]

\* outputLines.join("\n")
unknownChunksTsvContent(chunks) ==
    Join(<<TsvHeader>> \o
         [k \in 1..Len(chunks) |->
             chunks[k].chunk \o <<TAB>> \o IntToString(chunks[k].count)
                 \o <<TAB>>
                 \o Join([x \in 1..Len(chunks[k].exampleIds) |->
                             IntToString(chunks[k].exampleIds[x])], <<COMMA>>)],
         <<NEWLINE>>)

----------------------------------------------------------------------------
(* Tone marks (lib/cedict.js) *)

\* toneMap: the five forms of a, e, i, o, u and u-umlaut (v as u-umlaut)
toneMap(c) ==
    CASE c = 97 -> <<257, 225, 462, 224, 97>>
      [] c = 101 -> <<275, 233, 283, 232, 101>>
      [] c = 105 -> <<299, 237, 464, 236, 105>>
      [] c = 111 -> <<333, 243, 466, 242, 111>>
      [] c = 117 -> <<363, 250, 468, 249, 117>>
      [] c = 252 -> <<470, 472, 474, 476, 252>>
      [] c = 118 -> <<470, 472, 474, 476, 252>>
      [] OTHER -> <<>>

\* "o" tried before "ou"
vowelOrderOFirst ==
    << <<97>>, <<101>>, <<111>>, <<111, 117>>, <<105, 117>>, <<117, 105>>,
       <<105>>, <<117>>, <<252>> >>

\* ["a", "e", "ou", "o", "iu", "ui", "i", "u", "u-umlaut"]
vowelOrder ==
    << <<97>>, <<101>>, <<111, 117>>, <<111>>, <<105, 117>>, <<117, 105>>,
       <<105>>, <<117>>, <<252>> >>

\* str.toLowerCase() on the Latin letters pinyin uses (A-Z and U-umlaut)
toLowerCase(str) ==
    [k \in 1..Len(str) |->
        IF str[k] \in 65..90 THEN str[k] + 32
        ELSE IF str[k] = 220 THEN 252 ELSE str[k]]

RECURSIVE replaceUColon(_)
\* base.replace(/u:/g, "u-umlaut")
replaceUColon(str) ==
    IF str = <<>> THEN <<>>
    ELSE IF Len(str) >= 2 /\ str[1] = 117 /\ str[2] = 58
         THEN <<252>> \o replaceUColon(SubSeq(str, 3, Len(str)))
         ELSE <<str[1]>> \o replaceUColon(Tail(str))

\* base.replace(/v/g, "u-umlaut")
replaceV(str) == [k \in 1..Len(str) |-> IF str[k] = 118 THEN 252 ELSE str[k]]

\* str.includes(pattern)
includes(str, pattern) ==
    \E i \in 1..(Len(str) - Len(pattern) + 1) :
        SubSeq(str, i, i + Len(pattern) - 1) = pattern

\* str.replace(c, r) for one-character c and r: the first occurrence only
replaceFirst(str, c, r) ==
    LET at == {k \in 1..Len(str) : str[k] = c}
    IN  IF at = {} THEN str
        ELSE [str EXCEPT ![CHOOSE k \in at : \A other \in at : k <= other] = r]

\* The body of the map over syllables.
syllableToToneMarks(syllable) ==
    IF syllable = <<>> \/ syllable[Len(syllable)] \notin 48..57 THEN syllable
    ELSE LET tone == syllable[Len(syllable)] - 48
             base == replaceV(replaceUColon(
                         toLowerCase(SubSeq(syllable, 1, Len(syllable) - 1))))
             present == {k \in 1..Len(vowelOrder) : includes(base, vowelOrder[k])}
         IN  IF present = {} THEN base
             ELSE LET v == vowelOrder[CHOOSE k \in present :
                                          \A other \in present : k <= other]
                      targetVowel == v[Len(v)]
                  IN  IF toneMap(targetVowel) # <<>> /\ tone >= 1 /\ tone <= 5
                      THEN replaceFirst(base, targetVowel,
                                        toneMap(targetVowel)[tone])
                      ELSE base

numericToToneMarks(pinyin) ==
    LET syllables == Split(pinyin, 32)
    IN  Join([k \in 1..Len(syllables) |-> syllableToToneMarks(syllables[k])],
             <<32>>)

----------------------------------------------------------------------------
(* Step 3 of the pipeline: look up unknown chunks in CC-CEDICT *)

loadUnknownChunksTsv(fs) ==
    IF ~fs.unknownChunksTsv.exists THEN <<>>
    ELSE LET lines == Split(Trim(fs.unknownChunksTsv.content), NEWLINE)
             rows == Tail(lines)
         IN  [k \in 1..Len(rows) |->
                LET cols == Split(rows[k], TAB)
                IN  [chunk |-> cols[1],
                     count |-> IF Len(cols) >= 2 THEN parseInt(cols[2])
                               ELSE 0 - 1]]

\* frequency_in_corpus not carried over from the chunk's row.
foundEntryNoFrequency(cedictEntry, count) ==
    [simplified_zh |-> cedictEntry.simplified,
     traditional_zh |-> cedictEntry.traditional,
     pinyin |-> numericToToneMarks(cedictEntry.pinyin),
     pinyin_numeric |-> cedictEntry.pinyin,
     definitions |-> cedictEntry.definitions,
     frequency_in_corpus |-> 0]

\* The entry pushed to found for a chunk the dictionary holds.
foundEntry(cedictEntry, count) ==
    [simplified_zh |-> cedictEntry.simplified,
     traditional_zh |-> cedictEntry.traditional,
     pinyin |-> numericToToneMarks(cedictEntry.pinyin),
     pinyin_numeric |-> cedictEntry.pinyin,
     definitions |-> cedictEntry.definitions,
     frequency_in_corpus |-> count]

\* The skip of chunks already in words_hsk left out.
skippedExistingNever(chunk, hsk) == FALSE

\* if (hskWords.has(chunk)) { skippedExisting++; continue; }
skippedExisting(chunk, hsk) == chunk \in hsk

\* The files after lookupUnknownChunks(cedictMap, hskWords).
lookupUnknownChunks(map, hsk, fs) ==
    LET chunks == loadUnknownChunksTsv(fs)
        looked == SelectSeq(chunks, LAMBDA c : ~skippedExisting(c.chunk, hsk))
        hits == SelectSeq(looked, LAMBDA c : c.chunk \in DOMAIN map)
        notFound == SelectSeq(looked, LAMBDA c : c.chunk \notin DOMAIN map)
        found == [k \in 1..Len(hits) |->
                     foundEntry(map[hits[k].chunk], hits[k].count)]
        order == SortedIndicesDesc(
                     [k \in 1..Len(found) |-> found[k].frequency_in_corpus])
        foundSorted == [p \in 1..Len(found) |-> found[order[p]]]
    IN  IF chunks = <<>> THEN fs
        ELSE [fs EXCEPT !.unknownChunksCedict = File(foundSorted),
                        !.unknownChunksNotFound = File(notFound)]

----------------------------------------------------------------------------
(* Step 4 of the pipeline: enrich custom words *)

customEntry(simplified, traditional, pinyin, definitions) ==
    [simplified_zh |-> simplified, traditional_zh |-> traditional,
     pinyin_numeric |-> pinyin, english |-> definitions,
     hsk_approx |-> "null", source |-> "custom"]

\* wordObj.definitions && wordObj.pinyin_numeric
hasCedictData(wordObj) == wordObj.pinyin_numeric # <<>>

\* The files after enrichCustomWords(cedictMap, PATHS.unknownChunksCedict).
enrichCustomWords(map, fs) ==
    LET customWords == fs.unknownChunksCedict.content
        usable(w) == hasCedictData(w) \/ w.simplified_zh \in DOMAIN map
        kept == SelectSeq(customWords, usable)
        notFoundInCedict == SelectSeq(customWords, LAMBDA w : ~usable(w))
        entries ==
            [k \in 1..Len(kept) |->
                IF hasCedictData(kept[k])
                THEN customEntry(kept[k].simplified_zh, kept[k].traditional_zh,
                                 kept[k].pinyin_numeric, kept[k].definitions)
                ELSE LET cedict == map[kept[k].simplified_zh]
                     IN  customEntry(cedict.simplified, cedict.traditional,
                                     cedict.pinyin, cedict.definitions)]
    IN  IF ~fs.unknownChunksCedict.exists THEN fs
        ELSE [fs EXCEPT !.enriched = File(entries),
                        !.enrichedNotFound =
                            IF notFoundInCedict # <<>>
                            THEN File(notFoundInCedict) ELSE @]

----------------------------------------------------------------------------
(* Full pipeline: iterate find unknowns -> enrich -> accumulate *)

maxIterations == 5

\* while (iteration <= maxIterations)
loopContinuesOneMore(it) == it <= maxIterations + 1

loopContinuesOneLess(it) == it <= maxIterations - 1

loopContinues(it) == it <= maxIterations

\* if (unknownCount >= previousUnknowns)
convergedStrict(unknownCount, previous) ==
    previous.finite /\ unknownCount > previous.value

converged(unknownCount, previous) ==
    previous.finite /\ unknownCount >= previous.value

noUnknownsNever(unknownCount) == FALSE

\* if (unknownCount === 0)
noUnknowns(unknownCount) == unknownCount = 0

\* Simplified forms of the truthy entries of newlyEnriched, in order.
RECURSIVE addSimplified(_, _)
addSimplified(words, newlyEnriched) ==
    IF newlyEnriched = <<>> THEN words
    ELSE addSimplified(
            IF Head(newlyEnriched).simplified_zh # <<>>
            THEN words \cup {Head(newlyEnriched).simplified_zh}
            ELSE words,
            Tail(newlyEnriched))

replaceWithEnriched(words, newlyEnriched) ==
    {newlyEnriched[k].simplified_zh : k \in 1..Len(newlyEnriched)}

\* for (const word of newlyEnriched) knownWords.add(word.simplified_zh)
mergeIntoKnownWords(words, newlyEnriched) == addSimplified(words, newlyEnriched)

\* Top of the loop body: Step 2 and the convergence checks.
FindUnknowns ==
    /\ pc = "findUnknown"
    /\ sources.corpus
    /\ LET chunks == sortedChunks(corpus, knownWords)
           unknownCount == Len(chunks)
       IN  /\ files' = [files EXCEPT !.unknownChunksTsv =
                            File(unknownChunksTsvContent(chunks))]
           /\ unknownCounts' = Append(unknownCounts, unknownCount)
           /\ IF converged(unknownCount, previousUnknowns)
              THEN pc' = "done" /\ UNCHANGED previousUnknowns
              ELSE IF noUnknowns(unknownCount)
              THEN pc' = "done" /\ UNCHANGED previousUnknowns
              ELSE pc' = "lookup" /\ previousUnknowns' = Finite(unknownCount)
    /\ UNCHANGED <<splitVars, coverageVars, loaderVars, quizVars, corpus, cedictMap,
                   hskWords,
                   knownWords, allEnrichedWords, iteration, lookups>>

\* Rest of the loop body: Step 3, Step 4, accumulate, merge, iteration++.
LookupAndEnrich ==
    /\ pc = "lookup"
    /\ LET looked == lookupUnknownChunks(cedictMap, hskWords, files)
           enrichedFs == enrichCustomWords(cedictMap, looked)
           present == enrichedFs.enriched.exists
           newlyEnriched == enrichedFs.enriched.content
       IN  IF present
           THEN /\ allEnrichedWords' = allEnrichedWords \o newlyEnriched
                /\ files' = [enrichedFs EXCEPT !.enriched =
                                File(allEnrichedWords \o newlyEnriched)]
                /\ knownWords' = mergeIntoKnownWords(knownWords, newlyEnriched)
           ELSE /\ files' = enrichedFs
                /\ UNCHANGED <<allEnrichedWords, knownWords>>
    /\ lookups' = lookups + 1
    /\ iteration' = iteration + 1
    /\ pc' = IF loopContinues(iteration + 1) THEN "findUnknown" ELSE "done"
    /\ UNCHANGED <<splitVars, coverageVars, loaderVars, quizVars, corpus, cedictMap,
                   hskWords,
                   previousUnknowns, unknownCounts>>

\* command === "find-unknown": Step 2 alone
FindUnknownCommand ==
    /\ pc = "findUnknownCommand"
    /\ sources.corpus
    /\ LET chunks == sortedChunks(corpus, knownWords)
       IN  /\ files' = [files EXCEPT !.unknownChunksTsv =
                            File(unknownChunksTsvContent(chunks))]
           /\ unknownCounts' = Append(unknownCounts, Len(chunks))
    /\ pc' = "enrich"
    /\ UNCHANGED <<splitVars, coverageVars, loaderVars, quizVars, corpus, cedictMap,
                   hskWords,
                   knownWords, allEnrichedWords, iteration, previousUnknowns,
                   lookups>>

\* command === "enrich": Steps 3 and 4 on the chunk artifact found on disk.
EnrichCommand ==
    /\ pc = "enrich"
    /\ files' = enrichCustomWords(cedictMap,
                     lookupUnknownChunks(cedictMap, hskWords, files))
    /\ pc' = "done"
    /\ UNCHANGED <<splitVars, coverageVars, loaderVars, quizVars, corpus, cedictMap,
                   hskWords,
                   knownWords, allEnrichedWords, iteration, previousUnknowns,
                   unknownCounts, lookups>>

----------------------------------------------------------------------------
(* Inputs of the pipeline specification *)

MaxSentences == 5

\* U+4F60 U+597D U+5F88 U+9AD8 U+739B
Hanzi == <<20320, 22909, 24456, 39640, 29595>>
Word(ixs) == [k \in 1..Len(ixs) |-> Hanzi[ixs[k]]]

\* Sentences as the segmenter cuts them; the sixth ends in U+3002, the
\* seventh holds the ASCII letter A.
SentencePool ==
    << << Word(<<1>>) >>,
       << Word(<<1, 2>>) >>,
       << Word(<<2, 3>>) >>,
       << Word(<<3, 4>>) >>,
       << Word(<<4, 5>>) >>,
       << Word(<<1>>), <<12290>> >>,
       << Word(<<5>>), <<65>> >> >>

CorpusOf(chosen) ==
    SelectSeq([i \in 1..Len(SentencePool) |-> [id |-> i, zh |-> SentencePool[i]]],
              LAMBDA row : row.id \in chosen)

Corpora ==
    { CorpusOf(chosen) :
        chosen \in {X \in SUBSET (1..Len(SentencePool)) :
                        Cardinality(X) <= MaxSentences} }

\* Numeric pinyin of one character, as CC-CEDICT writes it.
PinyinOfChar(c) ==
    CASE c = 20320 -> <<110, 105, 51>>          \* ni3
      [] c = 22909 -> <<104, 97, 111, 51>>      \* hao3
      [] c = 24456 -> <<104, 101, 110, 51>>     \* hen3
      [] c = 39640 -> <<103, 97, 111, 49>>      \* gao1
      [] c = 29595 -> <<109, 97, 51>>           \* ma3
      [] OTHER -> <<121, 105, 49>>              \* yi1

\* A parsed dictionary line for the word w.
CedictEntry(w) ==
    [traditional |-> w, simplified |-> w,
     pinyin |-> Join([k \in 1..Len(w) |-> PinyinOfChar(w[k])], <<32>>),
     definitions |-> <<"definition">>]

CedictOf(words) == [w \in words |-> CedictEntry(w)]

DictionaryChoices ==
    { {},
      { Word(<<1>>) },
      { Word(<<5>>) },
      { Word(<<1>>), Word(<<2>>) },
      { Word(<<1>>), Word(<<2>>), Word(<<3>>) },
      { Word(<<1>>), Word(<<2>>), Word(<<3>>), Word(<<4>>) },
      { Word(<<1>>), Word(<<2>>), Word(<<3>>), Word(<<4>>), Word(<<5>>) },
      { Word(<<1>>), Word(<<2>>), Word(<<3>>), Word(<<4>>), Word(<<5>>),
        Word(<<1, 2>>), Word(<<2, 3>>) } }

HskChoices == { {}, { Word(<<1>>) }, { Word(<<2, 3>>) } }

\* Words of the additional JSON files loaded into the known set.
AdditionalChoices == { {}, { Word(<<3>>) } }

\* A corpus of forty one-character sentences, the first twenty-eight
\* characters being in the dictionary.
FortyCorpus == [k \in 1..40 |-> [id |-> k, zh |-> << <<19968 + k>> >>]]
FortyDictionary == { <<19968 + k>> : k \in 1..28 }

\* One sentence in which the second segment, a dictionary word, also lies
\* inside the first and the third segment.
CuttingCorpus ==
    << [id |-> 1,
        zh |-> << Word(<<1, 2, 3>>), Word(<<2>>), Word(<<4, 2, 5>>) >>] >>
CuttingDictionary == { Word(<<2>>) }

\* A dictionary word of seven characters that follows a known character
\* inside one segment, and a second sentence that is a dictionary word.
LongWord == Word(<<1, 2, 1, 2, 1, 2, 1>>)
LongWordCorpus ==
    << [id |-> 1, zh |-> << Word(<<3>>) \o LongWord >>],
       [id |-> 2, zh |-> << Word(<<4>>) >>] >>
LongWordDictionary == { LongWord, Word(<<4>>) }

\* U+4ED6 U+77E5 U+9053
TaZhiDao == <<20182, 30693, 36947>>
Ta == <<TaZhiDao[1]>>
ZhiDao == <<TaZhiDao[2], TaZhiDao[3]>>

\* Sentences for the aggregation pass: one with the ASCII letter A first,
\* one with the same word twice, words shared between sentences, and
\* U+4ED6 | U+77E5 U+9053 | U+3002.
AggregatorPool ==
    << << Word(<<5>>), <<65>> >>,
       << Word(<<4>>), Word(<<4>>) >>,
       << Word(<<3>>) >>,
       << Word(<<4>>), Word(<<3>>) >>,
       << Word(<<3>>) >>,
       << Ta, ZhiDao, <<12290>> >> >>

AggregatorCorpusOf(chosen) ==
    SelectSeq([i \in 1..Len(AggregatorPool) |->
                  [id |-> i, zh |-> AggregatorPool[i]]],
              LAMBDA row : row.id \in chosen)

AggregatorCorpora ==
    { AggregatorCorpusOf(chosen) :
        chosen \in {X \in SUBSET (1..Len(AggregatorPool)) :
                        Cardinality(X) <= MaxSentences} }

AggregatorDictionaries == { {}, { Word(<<3>>), Word(<<4>>) } }

AggregatorHsk == { {}, { Ta, ZhiDao } }

EnrichHsk == AggregatorHsk \cup { { Word(<<3>>) } }

\* State before the commands find-unknown and enrich are run one after the
\* other, or enrich alone with no chunk artifact on disk. knownWords is the
\* known set the find-unknown run loads, hskWords the HSK words the enrich
\* run loads: the vendored HSK file may have grown between the two runs.
CommandInit ==
    /\ pc \in {"findUnknownCommand", "enrich"}
    /\ SplitIdle
    /\ CoverageIdle
    /\ LoaderIdle
    /\ QuizIdle
    /\ corpus \in AggregatorCorpora
    /\ \E words \in AggregatorDictionaries : cedictMap = CedictOf(words)
    /\ hskWords \in EnrichHsk
    /\ knownWords \in {{}, hskWords}
    /\ allEnrichedWords = <<>>
    /\ iteration = 1
    /\ previousUnknowns = Infinity
    /\ files = NoFiles
    /\ unknownCounts = <<>>
    /\ lookups = 0

\* State on entry to the iteration loop of the full pipeline.
PipelineInit ==
    /\ pc = "findUnknown"
    /\ SplitIdle
    /\ CoverageIdle
    /\ LoaderIdle
    /\ QuizIdle
    /\ \/ /\ corpus \in Corpora
          /\ \E words \in DictionaryChoices : cedictMap = CedictOf(words)
          /\ hskWords \in HskChoices
          /\ \E additional \in AdditionalChoices :
                knownWords = hskWords \cup additional
       \/ /\ corpus = FortyCorpus
          /\ cedictMap = CedictOf(FortyDictionary)
          /\ hskWords = {}
          /\ knownWords = {}
       \/ /\ corpus \in AggregatorCorpora
          /\ \E words \in AggregatorDictionaries : cedictMap = CedictOf(words)
          /\ hskWords \in AggregatorHsk
          /\ knownWords = hskWords
       \/ /\ corpus = CuttingCorpus
          /\ cedictMap = CedictOf(CuttingDictionary)
          /\ hskWords = {}
          /\ knownWords = {}
       \/ /\ corpus = LongWordCorpus
          /\ cedictMap = CedictOf(LongWordDictionary)
          /\ hskWords = {Word(<<3>>)}
          /\ knownWords = hskWords
    /\ allEnrichedWords = <<>>
    /\ iteration = 1
    /\ previousUnknowns = Infinity
    /\ files = [NoFiles EXCEPT !.enriched = File(<<>>)]
    /\ unknownCounts = <<>>
    /\ lookups = 0

PipelineNext ==
    FindUnknowns \/ LookupAndEnrich \/ FindUnknownCommand \/ EnrichCommand

Spec == (PipelineInit \/ CommandInit) /\ [][PipelineNext]_vars

----------------------------------------------------------------------------
(* Properties of the full pipeline loop *)

Last(seq) == seq[Len(seq)]

\* C6: Convergence termination - the full-pipeline loop runs at most 5
\* aggregation passes and at most 5 resolution passes, and has stopped once
\* the iteration counter passes 5.
C6_AtMostFiveRounds ==
    /\ Len(unknownCounts) <= 5
    /\ lookups <= 5
    /\ iteration > 5 => pc = "done"

C6_Witness ==
    /\ pc = "done"
    /\ Len(unknownCounts) = 5
    /\ lookups = 5

\* C7: in every round the resolver runs only if the round's unknown count is
\* greater than zero and strictly smaller than the previous round's count
\* (no previous count in round 1); when the count is zero or at least the
\* previous count the loop halts in that round without running resolution,
\* leaving the Vocabulary Set and the cumulative enriched list unchanged.
C7_ResolverGuard ==
    [][ /\ pc = "findUnknown" =>
              LET n == Last(unknownCounts')
                  halts == \/ n = 0
                           \/ unknownCounts # <<>> /\ n >= Last(unknownCounts)
              IN  IF halts
                  THEN /\ pc' = "done"
                       /\ knownWords' = knownWords
                       /\ allEnrichedWords' = allEnrichedWords
                       /\ lookups' = lookups
                  ELSE pc' = "lookup"
        /\ lookups' # lookups => pc = "lookup"
        /\ pc = "done" => UNCHANGED <<knownWords, allEnrichedWords, lookups>>
      ]_vars

C7_Witness ==
    /\ pc = "done"
    /\ Len(unknownCounts) >= 3
    /\ Last(unknownCounts) > 0
    /\ Last(unknownCounts) >= unknownCounts[Len(unknownCounts) - 1]
    /\ lookups = Len(unknownCounts) - 1
    /\ allEnrichedWords # <<>>

StartsFortyTwelve ==
    /\ Len(unknownCounts) >= 2
    /\ unknownCounts[1] = 40
    /\ unknownCounts[2] = 12

\* C8 (as claimed): when the unknown counts of successive passes would be
\* 40, 12, 12 the loop halts after round 2 and round 3 is not run.
C8_RoundThreeNotRun ==
    StartsFortyTwelve => Len(unknownCounts) = 2

\* C8 (amended): when the unknown counts of successive passes are 40, 12, 12
\* the loop does not halt in round 2 (12 < 40, so round 2 runs resolution);
\* it halts in round 3, whose aggregation pass runs and finds 12 >= 12, and
\* round 3 runs no resolution: three aggregation passes, two resolutions.
C8_HaltsInRoundThree ==
    /\ (StartsFortyTwelve /\ Len(unknownCounts) = 2) => pc # "done"
    /\ (StartsFortyTwelve /\ Len(unknownCounts) >= 3
            /\ unknownCounts[3] = 12) =>
          /\ pc = "done"
          /\ unknownCounts = <<40, 12, 12>>
          /\ lookups = 2
          /\ iteration = 3

C8_Witness ==
    /\ pc = "done"
    /\ unknownCounts = <<40, 12, 12>>
    /\ Len(allEnrichedWords) = 28

\* C9: Monotonic vocabulary growth - every step of the loop leaves the
\* in-memory Vocabulary Set a superset of what it was.
C9_VocabularyGrows ==
    [][knownWords \subseteq knownWords']_vars

C9_Witness ==
    /\ lookups >= 2
    /\ hskWords # {}
    /\ Cardinality(knownWords) >= Cardinality(hskWords) + 2
    /\ \A k \in 1..Len(allEnrichedWords) :
          allEnrichedWords[k].simplified_zh \in knownWords

----------------------------------------------------------------------------
(* Coverage scorer (find-sentences-for-quiz.js) *)

\* CHINESE_PUNCTUATION of this script: ASCII " and ' stand where the
\* library has the curly quotes.
quizCHINESE_PUNCTUATION ==
    { 12290, 65292, 12289, 65307, 65306, 65311, 65281, 34, 39,
      65288, 65289, 12304, 12305, 12298, 12299, 8212, 8230, 183, 65374 }

\* CHINESE_PUNCTUATION.has(char): the set holds one-character strings
quizIsChinesePunctuation(str) ==
    Len(str) = 1 /\ str[1] \in quizCHINESE_PUNCTUATION

\* Longest len in min(4, remaining.length)..1 whose prefix is in the bank,
\* or 0 when the for loop finds none.
longestMatch(remaining, bank) ==
    LET limit == IF Len(remaining) < 4 THEN Len(remaining) ELSE 4
        hits == {len \in 1..limit : SubSeq(remaining, 1, len) \in bank}
    IN  IF hits = {} THEN 0
        ELSE CHOOSE len \in hits : \A other \in hits : other <= len

RECURSIVE coverRemaining(_, _, _)
\* while (remaining.length > 0); breakdown null is written <<>>
coverRemaining(remaining, breakdown, bank) ==
    IF ~(Len(remaining) > 0) THEN [known |-> TRUE, breakdown |-> breakdown]
    ELSE LET len == longestMatch(remaining, bank)
         IN  IF len = 0 THEN [known |-> FALSE, breakdown |-> <<>>]
             ELSE coverRemaining(SubSeq(remaining, len + 1, Len(remaining)),
                                 Append(breakdown, SubSeq(remaining, 1, len)),
                                 bank)

canCoverSegment(segment, bank) ==
    IF segment \in bank THEN [known |-> TRUE, breakdown |-> <<segment>>]
    ELSE coverRemaining(segment, <<>>, bank)

\* One pass of the loop over segments; acc holds the three accumulators.
coverageStepTotalOnUnknown(acc, segment, bank) ==
    IF quizIsChinesePunctuation(segment) THEN acc
    ELSE IF ~(\E k \in 1..Len(segment) : isCJK(segment[k])) THEN acc
    ELSE IF canCoverSegment(segment, bank).known
         THEN [acc EXCEPT !.knownSegments = @ + 1]
         ELSE [acc EXCEPT !.totalSegments = @ + 1,
                          !.unknownSegments = Append(@, segment)]

coverageStep(acc, segment, bank) ==
    IF quizIsChinesePunctuation(segment) THEN acc
    ELSE IF ~(\E k \in 1..Len(segment) : isCJK(segment[k])) THEN acc
    ELSE IF canCoverSegment(segment, bank).known
         THEN [acc EXCEPT !.totalSegments = @ + 1, !.knownSegments = @ + 1]
         ELSE [acc EXCEPT !.totalSegments = @ + 1,
                          !.unknownSegments = Append(@, segment)]

RECURSIVE coverageLoop(_, _, _)
coverageLoop(acc, segments, bank) ==
    IF segments = <<>> THEN acc
    ELSE coverageLoop(coverageStep(acc, Head(segments), bank),
                      Tail(segments), bank)

\* The score is the exact quotient knownSegments / totalSegments, kept as
\* numerator and denominator; the literal 0 is 0/1.
calculateCoverage(segments, bank) ==
    LET acc == coverageLoop([totalSegments |-> 0, knownSegments |-> 0,
                             unknownSegments |-> <<>>], segments, bank)
    IN  [score |-> IF acc.totalSegments > 0
                   THEN [num |-> acc.knownSegments, den |-> acc.totalSegments]
                   ELSE [num |-> 0, den |-> 1],
         totalSegments |-> acc.totalSegments,
         knownSegments |-> acc.knownSegments,
         unknownSegments |-> acc.unknownSegments]

----------------------------------------------------------------------------
(* Inputs of the coverage specification *)

MaxSegments == 3
MaxBankWords == 3

\* Segments: three words, a five-character word, U+3002, the letter A.
SegmentPool ==
    { Word(<<1>>), Word(<<1, 2, 3>>), Word(<<2, 3>>),
      Word(<<1, 2, 3, 4, 5>>), <<12290>>, <<65>> }

BankPool ==
    { Word(<<1>>), Word(<<1, 2>>), Word(<<2, 3>>), Word(<<3>>),
      Word(<<4, 5>>), Word(<<1, 2, 3, 4, 5>>) }

CoverageInit ==
    /\ pc = "coverage"
    /\ SplitIdle
    /\ PipelineIdle
    /\ LoaderIdle
    /\ QuizIdle
    /\ zh \in StringsUpTo(SegmentPool, MaxSegments)
    /\ userWordBank \in {X \in SUBSET BankPool : Cardinality(X) <= MaxBankWords}
    /\ coverage = NoCoverage

\* One call of calculateCoverage(zh, userWordBank)
DoCalculateCoverage ==
    /\ pc = "coverage"
    /\ coverage' = calculateCoverage(zh, userWordBank)
    /\ pc' = "coverageDone"
    /\ UNCHANGED <<splitVars, pipelineVars, loaderVars, quizVars, zh, userWordBank>>

CoverageNext == DoCalculateCoverage

SpecCoverage == CoverageInit /\ [][CoverageNext]_vars

\* C10: calculateCoverage returns 0 <= knownSegments <= totalSegments and
\* score = knownSegments / totalSegments, with score = 0 when totalSegments
\* is 0, so the score lies in [0, 1].
C10_ScoreBounded ==
    pc = "coverageDone" =>
        /\ 0 <= coverage.knownSegments
        /\ coverage.knownSegments <= coverage.totalSegments
        /\ coverage.score.den > 0
        /\ coverage.totalSegments > 0 =>
              coverage.score.num * coverage.totalSegments
                  = coverage.knownSegments * coverage.score.den
        /\ coverage.totalSegments = 0 => coverage.score.num = 0
        /\ 0 <= coverage.score.num
        /\ coverage.score.num <= coverage.score.den

C10_Witness ==
    /\ pc = "coverageDone"
    /\ coverage.totalSegments = 2
    /\ coverage.knownSegments = 1
    /\ Len(zh) > coverage.totalSegments

\* Every piece of the optimal split of the segment is known.
splitsAllKnown(segment, vocabulary) ==
    LET ps == splitTokenIntoKnownAndUnknown(segment, vocabulary,
                                            DefaultMaxWordLen)
    IN  \A k \in 1..Len(ps) : ps[k].known

\* The segments calculateCoverage counts: not punctuation, with a CJK character.
countedSegment(segment) ==
    /\ ~quizIsChinesePunctuation(segment)
    /\ \E k \in 1..Len(segment) : isCJK(segment[k])

\* C11: the coverage scorer counts a segment as known exactly when the
\* optimal token splitter, run on that segment with the learner vocabulary,
\* yields only known pieces: a counted segment is reported in
\* unknownSegments if and only if its split has an unknown piece.
C11_CoverIffSplitKnown ==
    pc = "coverageDone" =>
        \A k \in 1..Len(zh) :
            countedSegment(zh[k]) =>
                ((\E u \in 1..Len(coverage.unknownSegments) :
                        coverage.unknownSegments[u] = zh[k])
                    <=> ~splitsAllKnown(zh[k], userWordBank))

----------------------------------------------------------------------------
(* Properties of the aggregation pass *)

\* The rows of the chunk artifact: chunk, count and example ids.
parseChunksTsv(content) ==
    LET rows == Tail(Split(Trim(content), NEWLINE))
    IN  [k \in 1..Len(rows) |->
            LET cols == Split(rows[k], TAB)
                ids == Split(cols[3], COMMA)
            IN  [chunk |-> cols[1],
                 count |-> parseInt(cols[2]),
                 exampleIds |-> [x \in 1..Len(ids) |-> parseInt(ids[x])]]]

\* The sentences an aggregation pass scans, in order.
scannedSentences(sentences) ==
    SelectSeq(sentences, LAMBDA s : ~hasASCII(Concat(s.zh)))

\* A segment that is punctuation, has no CJK character, is known, or
\* splits entirely into known pieces.
harmlessSegment(segment, knownSet) ==
    \/ isChinesePunctuation(segment)
    \/ ~(\E k \in 1..Len(segment) : isCJK(segment[k]))
    \/ segment \in knownSet
    \/ splitsAllKnown(segment, knownSet)

harmlessSentence(segments, knownSet) ==
    \A k \in 1..Len(segments) : harmlessSegment(segments[k], knownSet)

TaZhiDaoOnly ==
    /\ Len(corpus) = 1
    /\ corpus[1].zh = << Ta, ZhiDao, <<12290>> >>
    /\ knownWords = { Ta, ZhiDao }

\* C12: an aggregation pass reports no unknown chunk for a sentence whose
\* every segment is Chinese punctuation, has no CJK character, is in the
\* known set, or splits entirely into known pieces: no record written by the
\* pass lists that sentence, and the corpus holding only U+4ED6 U+77E5 U+9053
\* U+3002 with the known set {U+4ED6, U+77E5 U+9053} yields zero chunks.
C12_KnownSentencesYieldNothing ==
    [][unknownCounts' # unknownCounts =>
          LET scanned == scannedSentences(corpus)
              records == parseChunksTsv(files'.unknownChunksTsv.content)
          IN  /\ \A k \in 1..Len(scanned) :
                    harmlessSentence(scanned[k].zh, knownWords) =>
                        \A r \in 1..Len(records) :
                            \A x \in 1..Len(records[r].exampleIds) :
                                records[r].exampleIds[x] # k - 1
              /\ TaZhiDaoOnly =>
                    records = <<>> /\ Last(unknownCounts') = 0]_vars

C12_Witness ==
    /\ TaZhiDaoOnly
    /\ pc = "done"
    /\ unknownCounts = <<0>>
    /\ files.unknownChunksTsv.content = TsvHeader

\* C13: a sentence containing an ASCII letter or digit contributes nothing
\* to an aggregation pass: the artifact written for the corpus is the one
\* produced for the corpus with every such sentence removed.
C13_AsciiSentencesIgnored ==
    [][unknownCounts' # unknownCounts =>
          /\ files'.unknownChunksTsv.content =
                unknownChunksTsvContent(
                    sortedChunks(scannedSentences(corpus), knownWords))
          /\ Last(unknownCounts') =
                Len(sortedChunks(scannedSentences(corpus), knownWords))]_vars

C13_Witness ==
    /\ unknownCounts # <<>>
    /\ Len(corpus) >= 3
    /\ hasASCII(Concat(corpus[1].zh))
    /\ Len(scannedSentences(corpus)) = Len(corpus) - 1
    /\ Last(unknownCounts) >= 2
    /\ \E r \in 1..Len(parseChunksTsv(files.unknownChunksTsv.content)) :
          parseChunksTsv(files.unknownChunksTsv.content)[r].exampleIds[1] = 0

\* The chunk is reported for the sentence: it is one of its unknown pieces.
occursIn(chunk, segments, knownSet) ==
    LET found == findUnknownChunksInSentence(segments, knownSet)
    IN  \E j \in 1..Len(found) : found[j] = chunk

\* C14: for every record of an aggregation pass, the count is the number of
\* distinct corpus sentences in which the chunk occurs as an unknown piece
\* (several occurrences in one sentence count once), and every recorded
\* sentence id is the identifier of a corpus sentence containing the chunk.
C14_CountsDistinctSentences ==
    [][unknownCounts' # unknownCounts =>
          LET scanned == scannedSentences(corpus)
              records == parseChunksTsv(files'.unknownChunksTsv.content)
          IN  \A r \in 1..Len(records) :
                /\ records[r].count =
                      Cardinality({k \in 1..Len(scanned) :
                          occursIn(records[r].chunk, scanned[k].zh, knownWords)})
                /\ \A x \in 1..Len(records[r].exampleIds) :
                      \E k \in 1..Len(scanned) :
                          /\ scanned[k].id = records[r].exampleIds[x]
                          /\ occursIn(records[r].chunk, scanned[k].zh,
                                      knownWords)]_vars

\* Position <<sentence, place>> at which the scan first meets the chunk.
firstDiscovered(chunk, scanned, knownSet) ==
    LET k == CHOOSE i \in 1..Len(scanned) :
                /\ occursIn(chunk, scanned[i].zh, knownSet)
                /\ \A h \in 1..(i - 1) : ~occursIn(chunk, scanned[h].zh, knownSet)
        found == findUnknownChunksInSentence(scanned[k].zh, knownSet)
    IN  <<k, CHOOSE j \in 1..Len(found) :
                /\ found[j] = chunk
                /\ \A h \in 1..(j - 1) : found[h] # chunk>>

\* C15: the records of an aggregation pass are ordered by non-increasing
\* count, records with equal counts keep the order in which their chunks
\* were first discovered, and a second pass over the same corpus with the
\* same known set writes the identical artifact.
C15_SortedStableDeterministic ==
    [][unknownCounts' # unknownCounts =>
          LET scanned == scannedSentences(corpus)
              records == parseChunksTsv(files'.unknownChunksTsv.content)
          IN  /\ \A r \in 1..(Len(records) - 1) :
                    \/ records[r].count > records[r + 1].count
                    \/ /\ records[r].count = records[r + 1].count
                       /\ occursBefore(
                              firstDiscovered(records[r].chunk, scanned,
                                              knownWords),
                              firstDiscovered(records[r + 1].chunk, scanned,
                                              knownWords))
              /\ (unknownCounts # <<>> /\ allEnrichedWords = <<>>) =>
                    files'.unknownChunksTsv = files.unknownChunksTsv]_vars

\* Counts 3, 2, 1, 1: the second chunk discovered is sorted first, the last
\* two tie; no word was added, so the artifact was written twice.
C15_Witness ==
    /\ Len(unknownCounts) = 2
    /\ allEnrichedWords = <<>>
    /\ LET records == parseChunksTsv(files.unknownChunksTsv.content)
       IN  /\ Len(records) = 4
           /\ records[1].chunk = Word(<<3>>) /\ records[1].count = 3
           /\ records[2].chunk = Word(<<4>>) /\ records[2].count = 2
           /\ records[3].chunk = Ta /\ records[3].count = 1
           /\ records[4].chunk = ZhiDao /\ records[4].count = 1

----------------------------------------------------------------------------
(* Properties of the resolver *)

\* A step that runs lookupUnknownChunks on a non-empty chunk artifact.
resolutionPass ==
    /\ pc \in {"lookup", "enrich"}
    /\ pc' # pc
    /\ loadUnknownChunksTsv(files) # <<>>

resolvedList(fs) == fs.unknownChunksCedict.content
unresolvedList(fs) == fs.unknownChunksNotFound.content

\* C16: the resolver neither resolves nor reports as unresolved a chunk of
\* the already-known vocabulary it is given (hskWords): no such chunk is in
\* the resolved list or in the unresolved list it writes.
C16_KnownChunksSkipped ==
    [][resolutionPass =>
          \A c \in hskWords :
              /\ \A k \in 1..Len(resolvedList(files')) :
                    resolvedList(files')[k].simplified_zh # c
              /\ \A k \in 1..Len(unresolvedList(files')) :
                    unresolvedList(files')[k].chunk # c]_vars

\* The resolver ran on an artifact holding a chunk of hskWords that the
\* dictionary also holds.
C16_Witness ==
    /\ pc = "done"
    /\ files.unknownChunksCedict.exists
    /\ \E k \in 1..Len(loadUnknownChunksTsv(files)) :
          /\ loadUnknownChunksTsv(files)[k].chunk \in hskWords
          /\ loadUnknownChunksTsv(files)[k].chunk \in DOMAIN cedictMap

\* C17: the resolver partitions its input: every input chunk that is not
\* skipped is in exactly one output list, in resolved (simplified equal to
\* the chunk, frequency carried over) if and only if the dictionary holds
\* it, otherwise in unresolved; skipped + resolved + unresolved is the
\* number of input chunks.
C17_ResolverPartitions ==
    [][resolutionPass =>
          LET chunks == loadUnknownChunksTsv(files)
              found == resolvedList(files')
              notFound == unresolvedList(files')
              inFound(c) == {k \in 1..Len(found) : found[k].simplified_zh = c.chunk}
              inNotFound(c) == {k \in 1..Len(notFound) : notFound[k].chunk = c.chunk}
              skipped == {k \in 1..Len(chunks) : chunks[k].chunk \in hskWords}
          IN  /\ \A k \in 1..Len(chunks) :
                    chunks[k].chunk \notin hskWords =>
                        IF chunks[k].chunk \in DOMAIN cedictMap
                        THEN /\ Cardinality(inFound(chunks[k])) = 1
                             /\ inNotFound(chunks[k]) = {}
                             /\ \A i \in inFound(chunks[k]) :
                                   found[i].frequency_in_corpus = chunks[k].count
                        ELSE /\ inFound(chunks[k]) = {}
                             /\ Cardinality(inNotFound(chunks[k])) = 1
                             /\ \A i \in inNotFound(chunks[k]) :
                                   notFound[i].count = chunks[k].count
              /\ Cardinality(skipped) + Len(found) + Len(notFound)
                    = Len(chunks)]_vars

\* A resolution pass with a skipped, a resolved and an unresolved chunk.
C17_Witness ==
    /\ pc = "done"
    /\ files.unknownChunksCedict.exists
    /\ Len(resolvedList(files)) >= 1
    /\ resolvedList(files)[1].frequency_in_corpus >= 2
    /\ Len(unresolvedList(files)) >= 1
    /\ Len(loadUnknownChunksTsv(files))
          > Len(resolvedList(files)) + Len(unresolvedList(files))

----------------------------------------------------------------------------
(* Tone-mark conversion on its own *)

MaxSyllables == 2

\* ka1 fei1 zhou1 liu2 gui4 nu:3 lv4 ma5 m2 Er2 yue4 de
SyllablePool ==
    { <<107, 97, 49>>, <<102, 101, 105, 49>>, <<122, 104, 111, 117, 49>>,
      <<108, 105, 117, 50>>, <<103, 117, 105, 52>>, <<110, 117, 58, 51>>,
      <<108, 118, 52>>, <<109, 97, 53>>, <<109, 50>>, <<69, 114, 50>>,
      <<121, 117, 101, 52>>, <<100, 101>> }

ToneInit ==
    /\ pc = "toneMarks"
    /\ SplitIdle
    /\ PipelineIdle
    /\ CoverageIdle
    /\ QuizIdle
    /\ \E n \in 1..MaxSyllables :
          \E syllables \in [1..n -> SyllablePool] :
              pinyinInput = Join(syllables, <<32>>)
    /\ toneMarks = <<>>
    /\ cedictLines = <<>>
    /\ sources = AllSources

\* One call of numericToToneMarks(pinyin)
DoToneMarks ==
    /\ pc = "toneMarks"
    /\ toneMarks' = numericToToneMarks(pinyinInput)
    /\ pc' = "toneMarksDone"
    /\ UNCHANGED <<splitVars, pipelineVars, coverageVars, pinyinInput,
                   cedictLines, sources, quizVars>>

ToneNext == DoToneMarks

SpecTone == ToneInit /\ [][ToneNext]_vars

\* The syllable without its tone digit, in lower case, u: and v written as
\* u-umlaut.
normalized(syllable) ==
    replaceV(replaceUColon(toLowerCase(SubSeq(syllable, 1, Len(syllable) - 1))))

\* Positions at which the two strings differ.
changedAt(before, after) == {i \in 1..Len(before) : after[i] # before[i]}

\* The precedence order of the claim: a, e, ou, o, iu, ui, i, u, u-umlaut.
precedence ==
    << <<97>>, <<101>>, <<111, 117>>, <<111>>, <<105, 117>>, <<117, 105>>,
       <<105>>, <<117>>, <<252>> >>

\* The patterns of the precedence order present in the string.
patternsPresent(str) == {k \in 1..Len(precedence) : includes(str, precedence[k])}

firstPattern(str) ==
    precedence[CHOOSE k \in patternsPresent(str) :
                   \A other \in patternsPresent(str) : k <= other]

\* The marked vowel is the last letter of the first pattern present and
\* carries the mark of the tone.
oneVowelMarked(before, after, tone) ==
    /\ Len(after) = Len(before)
    /\ Cardinality(changedAt(before, after)) = 1
    /\ \A i \in changedAt(before, after) :
          /\ patternsPresent(before) # {}
          /\ before[i] = firstPattern(before)[Len(firstPattern(before))]
          /\ after[i] = toneMap(before[i])[tone]

KaFei == <<107, 97, 49, 32, 102, 101, 105, 49>>
KaFeiMarked == <<107, 257, 32, 102, 275, 105>>

\* What C18 says of the syllable at place k; markAlways is the claim as
\* written (every syllable of tone 1 to 4 gets its mark).
toneSyllableOk(k, markAlways) ==
    LET syllable == Split(pinyinInput, 32)[k]
        out == Split(toneMarks, 32)[k]
        tone == syllable[Len(syllable)] - 48
    IN  (syllable # <<>> /\ tone \in 1..5) =>
            IF tone = 5 THEN out = normalized(syllable)
            ELSE IF markAlways \/ patternsPresent(normalized(syllable)) # {}
            THEN oneVowelMarked(normalized(syllable), out, tone)
            ELSE out = normalized(syllable)

----------------------------------------------------------------------------
(* CC-CEDICT loader (lib/cedict.js) *)

\* \s of a regular expression
regexSpace(c) == IsWhiteSpace(c)

\* . of a regular expression: any character but a line terminator
regexDot(c) == c \notin {10, 13, 8232, 8233}

\* /^(.+?)\s+(.+?)\s+\[(.+?)\]\s+\/(.+)\/\s*$/ as its twelve items
cedictPattern ==
    << [kind |-> "lazy", char |-> 0], [kind |-> "spaces", char |-> 0],
       [kind |-> "lazy", char |-> 0], [kind |-> "spaces", char |-> 0],
       [kind |-> "literal", char |-> 91], [kind |-> "lazy", char |-> 0],
       [kind |-> "literal", char |-> 93], [kind |-> "spaces", char |-> 0],
       [kind |-> "literal", char |-> 47], [kind |-> "greedy", char |-> 0],
       [kind |-> "literal", char |-> 47], [kind |-> "optionalSpaces", char |-> 0] >>

\* Ends e (exclusive) an item may take when it starts at p, before the rest
\* of the pattern is considered.
itemEnds(line, item, p) ==
    CASE item.kind = "literal" ->
            IF p <= Len(line) /\ line[p] = item.char THEN {p + 1} ELSE {}
      [] item.kind = "spaces" ->
            {e \in (p + 1)..(Len(line) + 1) :
                \A i \in p..(e - 1) : regexSpace(line[i])}
      [] item.kind = "optionalSpaces" ->
            {e \in p..(Len(line) + 1) :
                \A i \in p..(e - 1) : regexSpace(line[i])}
      [] OTHER ->
            {e \in (p + 1)..(Len(line) + 1) :
                \A i \in p..(e - 1) : regexDot(line[i])}

RECURSIVE matchesFrom(_, _, _)
\* Items k.. of the pattern match line from position p up to its end.
matchesFrom(line, k, p) ==
    IF k > Len(cedictPattern) THEN p = Len(line) + 1
    ELSE \E e \in itemEnds(line, cedictPattern[k], p) :
            matchesFrom(line, k + 1, e)

\* The end the backtracking matcher settles on for item k started at p:
\* the shortest for a lazy item, the longest otherwise.
itemEnd(line, k, p) ==
    LET ends == {e \in itemEnds(line, cedictPattern[k], p) :
                    matchesFrom(line, k + 1, e)}
    IN  IF cedictPattern[k].kind = "lazy"
        THEN CHOOSE e \in ends : \A other \in ends : e <= other
        ELSE CHOOSE e \in ends : \A other \in ends : e >= other

RECURSIVE itemStart(_, _)
\* Start of item k in the match (item 1 starts at 1).
itemStart(line, k) ==
    IF k = 1 THEN 1 ELSE itemEnd(line, k - 1, itemStart(line, k - 1))

\* Text captured by item k
captured(line, k) ==
    SubSeq(line, itemStart(line, k), itemStart(line, k + 1) - 1)

\* NoEntry stands for null.
NoEntry == [parsed |-> FALSE]

parseCedictLine(line) ==
    IF (line # <<>> /\ line[1] = 35) \/ Trim(line) = <<>> THEN NoEntry
    ELSE IF ~matchesFrom(line, 1, 1) THEN NoEntry
    ELSE [parsed |-> TRUE,
          traditional |-> captured(line, 1),
          simplified |-> captured(line, 3),
          pinyin |-> captured(line, 6),
          definitions |-> SelectSeq(Split(captured(line, 10), 47),
                                    LAMBDA d : Trim(d) # <<>>)]

\* The Map entry: the parsed line without the marker of the model.
entryOf(parsedLine) ==
    [traditional |-> parsedLine.traditional,
     simplified |-> parsedLine.simplified,
     pinyin |-> parsedLine.pinyin,
     definitions |-> parsedLine.definitions]

\* map.set(entry.simplified, entry) for a new key
mapSet(map, key, value) ==
    [w \in DOMAIN map \cup {key} |-> IF w = key THEN value ELSE map[w]]

\* The has(entry.simplified) test left out: the last line of a key wins.
loadStepLastWins(map, line) ==
    LET entry == parseCedictLine(line)
    IN  IF entry.parsed
        THEN mapSet(map, entry.simplified, entryOf(entry))
        ELSE map

\* Body of for await (const line of rl)
loadStep(map, line) ==
    LET entry == parseCedictLine(line)
    IN  IF entry.parsed /\ entry.simplified \notin DOMAIN map
        THEN mapSet(map, entry.simplified, entryOf(entry))
        ELSE map

RECURSIVE loadLines(_, _)
loadLines(map, lines) ==
    IF lines = <<>> THEN map
    ELSE loadLines(loadStep(map, Head(lines)), Tail(lines))

loadCedict(lines) == loadLines(<<>>, lines)

\* Lines of a dictionary file, each with the entry its fields spell out
\* (expected), NoEntry for a comment, blank or malformed line.
CedictLinePool ==
    {
      \* U+4F60 U+4F60 [ni3] /you/
      [line |-> <<20320, 32, 20320, 32, 91, 110, 105, 51, 93, 32, 47, 121, 111, 117, 47>>,
       expected |->
          [parsed |-> TRUE, traditional |-> <<20320>>, simplified |-> <<20320>>,
          pinyin |-> <<110, 105, 51>>,
          definitions |-> <<<<121, 111, 117>>>>]],
      \* U+59B3 U+4F60 [ni3] /thou/: the same simplified key
      [line |-> <<22963, 32, 20320, 32, 91, 110, 105, 51, 93, 32, 47, 116, 104, 111, 117, 47>>,
       expected |->
          [parsed |-> TRUE, traditional |-> <<22963>>, simplified |-> <<20320>>,
          pinyin |-> <<110, 105, 51>>,
          definitions |-> <<<<116, 104, 111, 117>>>>]],
      \* U+5F88 U+5F88 [hen3] /a//b/ and a trailing space
      [line |-> <<24456, 32, 24456, 32, 91, 104, 101, 110, 51, 93, 32, 47, 97, 47, 47, 98, 47, 32>>,
       expected |->
          [parsed |-> TRUE, traditional |-> <<24456>>, simplified |-> <<24456>>,
          pinyin |-> <<104, 101, 110, 51>>,
          definitions |-> <<<<97>>, <<98>>>>]],
      \* two characters, two syllables
      [line |-> <<20320, 22909, 32, 20320, 22909, 32, 91, 110, 105, 51, 32, 104, 97, 111, 51, 93, 32, 47, 104, 101, 108, 108, 111, 47>>,
       expected |->
          [parsed |-> TRUE, traditional |-> <<20320, 22909>>, simplified |-> <<20320, 22909>>,
          pinyin |-> <<110, 105, 51, 32, 104, 97, 111, 51>>,
          definitions |-> <<<<104, 101, 108, 108, 111>>>>]],
      \* a comment line that would otherwise parse
      [line |-> <<35, 32, 20320, 32, 91, 97, 49, 93, 32, 47, 98, 47>>,
       expected |->
          NoEntry],
      \* an empty line
      [line |-> <<>>,
       expected |->
          NoEntry],
      \* a blank line
      [line |-> <<32, 32>>,
       expected |->
          NoEntry],
      \* no brackets around the pinyin: unparseable
      [line |-> <<20320, 32, 20320, 32, 110, 105, 51, 32, 47, 121, 111, 117, 47>>,
       expected |->
          NoEntry] }

MaxCedictLines == 3

CedictInit ==
    /\ pc = "loadCedict"
    /\ SplitIdle
    /\ PipelineIdle
    /\ CoverageIdle
    /\ QuizIdle
    /\ pinyinInput = <<>>
    /\ toneMarks = <<>>
    /\ \E n \in 0..MaxCedictLines :
          \E chosen \in [1..n -> CedictLinePool] :
              cedictLines = [k \in 1..n |-> chosen[k].line]
    /\ sources = AllSources

\* const cedictMap = await loadCedict()
LoadCedict ==
    /\ pc = "loadCedict"
    /\ cedictMap' = loadCedict(cedictLines)
    /\ pc' = "cedictLoaded"
    /\ UNCHANGED <<splitVars, coverageVars, loaderVars, quizVars, corpus, hskWords,
                   knownWords, allEnrichedWords, iteration, previousUnknowns,
                   files, unknownCounts, lookups>>

CedictNext == LoadCedict

SpecCedict == CedictInit /\ [][CedictNext]_vars

\* The entry the fields of the line spell out, NoEntry if it has none.
expectedOf(line) == (CHOOSE row \in CedictLinePool : row.line = line).expected

\* Index of the first parseable line with the simplified key
firstLineOf(key) ==
    CHOOSE k \in 1..Len(cedictLines) :
        /\ expectedOf(cedictLines[k]).parsed
        /\ expectedOf(cedictLines[k]).simplified = key
        /\ \A h \in 1..(k - 1) :
              ~(expectedOf(cedictLines[h]).parsed
                  /\ expectedOf(cedictLines[h]).simplified = key)

\* C19: after loading any sequence of dictionary lines the load has
\* completed and the map holds, for each simplified key, the entry of the
\* first parseable line with that key; later lines with the key do not
\* replace it, and comment, blank or unparseable lines add nothing.
C19_FirstEntryWins ==
    pc = "cedictLoaded" =>
        /\ DOMAIN cedictMap =
              {expectedOf(cedictLines[k]).simplified :
                  k \in {i \in 1..Len(cedictLines) :
                            expectedOf(cedictLines[i]).parsed}}
        /\ \A key \in DOMAIN cedictMap :
              cedictMap[key] = entryOf(expectedOf(cedictLines[firstLineOf(key)]))

\* A comment line, then two lines with the same key: the first one is kept.
C19_Witness ==
    /\ pc = "cedictLoaded"
    /\ Len(cedictLines) = 3
    /\ ~expectedOf(cedictLines[1]).parsed
    /\ expectedOf(cedictLines[2]).parsed
    /\ expectedOf(cedictLines[3]).parsed
    /\ expectedOf(cedictLines[2]).simplified = expectedOf(cedictLines[3]).simplified
    /\ expectedOf(cedictLines[2]).traditional # expectedOf(cedictLines[3]).traditional
    /\ DOMAIN cedictMap = {expectedOf(cedictLines[2]).simplified}
    /\ cedictMap[expectedOf(cedictLines[2]).simplified].traditional
          = expectedOf(cedictLines[2]).traditional

----------------------------------------------------------------------------
(* Start of a full run: loading the sources *)

\* The load that rejects first, if any: loadCedict() reads the dictionary
\* file before anything else, loadHskWords() reads the HSK file with
\* readFileSync; either failure rejects main(), which exits with status 1.
sourceFailureHskTolerated(available) ==
    IF ~available.cedict THEN "cedict" ELSE "none"

sourceFailure(available) ==
    IF ~available.cedict THEN "cedict"
    ELSE IF ~available.hsk THEN "hsk"
    ELSE "none"

\* loadWordsFromJsonFiles: a file that does not exist is passed over, a file
\* that cannot be read or parsed is warned about; both contribute no words.
loadWordsFromJsonFiles(available, words) ==
    IF available THEN words ELSE {}

\* Before main() has loaded anything; corpus is the content of the
\* sentences table, sources tells which sources can be read.
StartInit ==
    /\ pc = "start"
    /\ SplitIdle
    /\ CoverageIdle
    /\ QuizIdle
    /\ pinyinInput = <<>>
    /\ toneMarks = <<>>
    /\ cedictLines = <<>>
    /\ sources \in [DOMAIN AllSources -> BOOLEAN]
    /\ corpus \in AggregatorCorpora
    /\ cedictMap = <<>>
    /\ hskWords = {}
    /\ knownWords = {}
    /\ allEnrichedWords = <<>>
    /\ iteration = 1
    /\ previousUnknowns = Infinity
    /\ files = NoFiles
    /\ unknownCounts = <<>>
    /\ lookups = 0

\* main() for the command "full", up to the entry of the iteration loop.
StartFull ==
    /\ pc = "start"
    /\ \E dictionary \in AggregatorDictionaries, hsk \in AggregatorHsk,
          additional \in AdditionalChoices :
          CASE sourceFailure(sources) = "cedict" ->
                  /\ pc' = "aborted"
                  /\ UNCHANGED <<cedictMap, hskWords, knownWords, files>>
            [] sourceFailure(sources) = "hsk" ->
                  /\ pc' = "aborted"
                  /\ cedictMap' = CedictOf(dictionary)
                  /\ UNCHANGED <<hskWords, knownWords, files>>
            [] OTHER ->
                  /\ pc' = "findUnknown"
                  /\ cedictMap' = CedictOf(dictionary)
                  /\ hskWords' = hsk
                  /\ files' = [files EXCEPT !.enriched = File(<<>>)]
                  /\ knownWords' =
                        hsk \cup loadWordsFromJsonFiles(sources.additional,
                                                        additional)
    /\ UNCHANGED <<splitVars, coverageVars, loaderVars, quizVars, corpus,
                   allEnrichedWords, iteration, previousUnknowns,
                   unknownCounts, lookups>>

\* findUnknownChunks: the query on the sentences table rejects, and main()
\* with it, before a sentence has been scanned.
CorpusUnavailable ==
    /\ pc = "findUnknown"
    /\ ~sources.corpus
    /\ pc' = "aborted"
    /\ UNCHANGED <<splitVars, pipelineVars, coverageVars, loaderVars,
                   quizVars>>

StartNext ==
    StartFull \/ CorpusUnavailable \/ FindUnknowns \/ LookupAndEnrich

SpecStart == StartInit /\ [][StartNext]_vars

nothingProcessed ==
    /\ unknownCounts = <<>>
    /\ lookups = 0
    /\ files = NoFiles

C20_ToleratedWitness ==
    /\ ~sources.additional
    /\ lookups >= 1
    /\ files.unknownChunksTsv.exists

----------------------------------------------------------------------------
(* Quiz selection (find-sentences-for-quiz.js, findQuizSentences) *)

\* The limit argument: null when the command line gives none, else the
\* parsed integer.
NoLimit == [given |-> FALSE, value |-> 0]
Limit(n) == [given |-> TRUE, value |-> n]

\* Truthiness of the limit: null and 0 are falsy.
truthy(lim) == lim.given /\ lim.value # 0

\* a <= b on quotients with positive denominators
atMost(a, b) == a.num * b.den <= b.num * a.den

lessThan(a, b) == a.num * b.den < b.num * a.den

withinRangeExclusive(score, min, max) ==
    lessThan(min, score) /\ lessThan(score, max)

\* coverage.score >= minCoverage && coverage.score <= maxCoverage
withinRange(score, min, max) ==
    atMost(min, score) /\ atMost(score, max)

candidate(row, cov) ==
    [zh_id |-> row.id, zh |-> row.zh, coverage |-> cov.score,
     totalSegments |-> cov.totalSegments,
     knownSegments |-> cov.knownSegments,
     unknownSegments |-> cov.unknownSegments]

RECURSIVE findQuizLoop(_, _, _, _, _, _)
\* for (const { zh_id, zh, en } of sentences), with its continue and break
findQuizLoop(found, rows, bank, min, max, lim) ==
    IF rows = <<>> THEN found
    ELSE IF hasASCII(Concat(Head(rows).zh))
    THEN findQuizLoop(found, Tail(rows), bank, min, max, lim)
    ELSE LET cov == calculateCoverage(Head(rows).zh, bank)
         IN  IF withinRange(cov.score, min, max)
             THEN LET pushed == Append(found, candidate(Head(rows), cov))
                  IN  IF truthy(lim) /\ Len(pushed) >= lim.value
                      THEN pushed
                      ELSE findQuizLoop(pushed, Tail(rows), bank, min, max, lim)
             ELSE findQuizLoop(found, Tail(rows), bank, min, max, lim)

findQuizSentences(sentences, bank, min, max, lim) ==
    findQuizLoop(<<>>, sentences, bank, min, max, lim)

MaxQuizRows == 3
MaxLimit == 2

\* Sentences of the quiz corpus; the third holds the ASCII letter A.
QuizPool ==
    << << Word(<<1>>), Word(<<2, 3>>) >>,
       << Word(<<1>>), <<12290>> >>,
       << Word(<<1, 2, 3>>), <<65>> >>,
       << Word(<<2, 3>>) >>,
       << Word(<<1>>), Word(<<1>>), Word(<<2, 3>>) >> >>

\* Rows of sentences_tatoeba in table order: distinct sentences of the pool.
QuizCorpora ==
    UNION { { [k \in 1..n |-> [id |-> order[k], zh |-> QuizPool[order[k]]]] :
                order \in { f \in [1..n -> 1..Len(QuizPool)] :
                              \A a, b \in 1..n : a # b => f[a] # f[b] } } :
            n \in 0..MaxQuizRows }

QuizBanks == { {}, {Word(<<1>>)}, {Word(<<1>>), Word(<<2, 3>>)} }

Quotient(n, d) == [num |-> n, den |-> d]

QuizInit ==
    /\ pc = "findQuiz"
    /\ SplitIdle
    /\ LoaderIdle
    /\ zh = <<>>
    /\ coverage = NoCoverage
    /\ userWordBank \in QuizBanks
    /\ corpus \in QuizCorpora
    /\ cedictMap = <<>>
    /\ hskWords = {}
    /\ knownWords = {}
    /\ allEnrichedWords = <<>>
    /\ iteration = 0
    /\ previousUnknowns = Infinity
    /\ files = NoFiles
    /\ unknownCounts = <<>>
    /\ lookups = 0
    /\ minCoverage \in {Quotient(0, 1), Quotient(1, 2), Quotient(4, 5)}
    /\ maxCoverage \in {Quotient(1, 2), Quotient(19, 20), Quotient(1, 1)}
    /\ quizLimit \in {NoLimit} \cup {Limit(n) : n \in 0..MaxLimit}
    /\ candidates = <<>>
    /\ wordLists = {}
    /\ attempt = 0
    /\ draws = 0
    /\ quizSentence = Undefined

\* One call of findQuizSentences(userId, minCoverage, maxCoverage, limit)
DoFindQuizSentences ==
    /\ pc = "findQuiz"
    /\ candidates' = findQuizSentences(corpus, userWordBank, minCoverage,
                                       maxCoverage, quizLimit)
    /\ pc' = "findQuizDone"
    /\ UNCHANGED <<splitVars, pipelineVars, coverageVars, loaderVars,
                   minCoverage, maxCoverage, quizLimit, wordLists, attempt,
                   draws, quizSentence>>

QuizNext == DoFindQuizSentences

SpecQuiz == QuizInit /\ [][QuizNext]_vars

\* The ids of the rows that qualify, in corpus order.
qualifyingIds ==
    LET rows == SelectSeq(corpus, LAMBDA row :
                    /\ ~hasASCII(Concat(row.zh))
                    /\ LET s == calculateCoverage(row.zh, userWordBank).score
                       IN  /\ minCoverage.num * s.den <= s.num * minCoverage.den
                           /\ s.num * maxCoverage.den <= maxCoverage.num * s.den)
    IN  [k \in 1..Len(rows) |-> rows[k].id]

candidateIds == [k \in 1..Len(candidates) |-> candidates[k].zh_id]

candidatesQualify ==
    \A k \in 1..Len(candidates) :
        /\ ~hasASCII(Concat(candidates[k].zh))
        /\ \E r \in 1..Len(corpus) :
              /\ corpus[r].id = candidates[k].zh_id
              /\ corpus[r].zh = candidates[k].zh
              /\ candidates[k].coverage
                    = calculateCoverage(corpus[r].zh, userWordBank).score
        /\ minCoverage.num * candidates[k].coverage.den
              <= candidates[k].coverage.num * minCoverage.den
        /\ candidates[k].coverage.num * maxCoverage.den
              <= maxCoverage.num * candidates[k].coverage.den

firstOf(seq, n) == SubSeq(seq, 1, IF n < Len(seq) THEN n ELSE Len(seq))

----------------------------------------------------------------------------
(* Tie-break of the splitter *)

\* The pieces of tok cut at the positions in cuts, as <<start, end>> pairs.
PiecesOfCuts(tok, cuts) ==
    LET marks == {0} \cup cuts \cup {Len(tok)}
    IN  { <<a, b>> \in marks \X marks :
            a < b /\ ~(\E x \in marks : a < x /\ x < b) }

knownPieceOf(tok, knownSet, piece, maxLen) ==
    /\ piece[2] - piece[1] <= maxLen
    /\ SubSeq(tok, piece[1] + 1, piece[2]) \in knownSet

\* Every piece is one character or a known word of at most maxLen.
AdmissibleCuts(tok, knownSet, maxLen) ==
    { cuts \in CutSets(tok) :
        \A piece \in PiecesOfCuts(tok, cuts) :
            \/ piece[2] - piece[1] = 1
            \/ knownPieceOf(tok, knownSet, piece, maxLen) }

\* The path of the dynamic programme covers as much as any admissible
\* decomposition and has no more pieces than any that covers as much.
fewestPiecesAmongBest(tok, knownSet, path, maxLen) ==
    \A cuts \in AdmissibleCuts(tok, knownSet, maxLen) :
        LET c == DecompositionCoverage(tok, knownSet, cuts, maxLen)
        IN  /\ c <= KnownLength(path)
            /\ c = KnownLength(path) => Len(path) <= Cardinality(cuts) + 1

\* C22: Tie-break - among the decompositions of the token into
\* one-character unknown pieces and known pieces of at most
\* max_piece_length (6) code points that reach the maximum known coverage,
\* the path chosen by the dynamic programme, before merging, has the
\* minimum number of pieces.
C22_FewestPieces ==
    (pc = "splitDone" /\ token # <<>>) =>
        LET path == piecesReversed(token, known, DefaultMaxWordLen)
        IN  /\ Concat(PieceTexts(path)) = token
            /\ fewestPiecesAmongBest(token, known, path, DefaultMaxWordLen)

\* A token with two decompositions of maximum coverage and different
\* numbers of pieces, the path taking the shorter.
C22_Witness ==
    /\ pc = "splitDone"
    /\ Len(token) >= 4
    /\ LET path == piecesReversed(token, known, DefaultMaxWordLen)
       IN  /\ Len(path) = 2
           /\ KnownLength(path) = Len(token)
           /\ \E cuts \in AdmissibleCuts(token, known, DefaultMaxWordLen) :
                 /\ DecompositionCoverage(token, known, cuts, DefaultMaxWordLen)
                       = Len(token)
                 /\ Cardinality(cuts) + 1 > 2

----------------------------------------------------------------------------
(* Standard placement of the tone mark *)

\* a e i o u u-umlaut
pinyinVowels == {97, 101, 105, 111, 117, 252}

firstIndexOf(str, c) ==
    CHOOSE k \in 1..Len(str) : str[k] = c /\ \A j \in 1..(k - 1) : str[j] # c

\* The letter the standard rule marks: a, otherwise e, otherwise the o of
\* ou, otherwise the last vowel.
standardPosition(str) ==
    IF includes(str, <<97>>) THEN firstIndexOf(str, 97)
    ELSE IF includes(str, <<101>>) THEN firstIndexOf(str, 101)
    ELSE IF includes(str, <<111, 117>>)
    THEN CHOOSE k \in 1..(Len(str) - 1) :
            /\ str[k] = 111 /\ str[k + 1] = 117
            /\ \A j \in 1..(k - 1) : ~(str[j] = 111 /\ str[j + 1] = 117)
    ELSE CHOOSE k \in 1..Len(str) :
            /\ str[k] \in pinyinVowels
            /\ \A j \in (k + 1)..Len(str) : str[j] \notin pinyinVowels

\* C23: for every syllable of tone 1 to 4 that has a vowel, the output is
\* the syllable without its digit with the tone mark on the letter chosen
\* by the standard placement rule: a if there is one, otherwise e, otherwise
\* the o of ou, otherwise the last vowel.
C23_StandardPlacement ==
    pc = "toneMarksDone" =>
        \A k \in 1..Len(Split(pinyinInput, 32)) :
            LET syllable == Split(pinyinInput, 32)[k]
                out == Split(toneMarks, 32)[k]
                tone == syllable[Len(syllable)] - 48
                base == normalized(syllable)
            IN  (syllable # <<>> /\ tone \in 1..4
                    /\ \E i \in 1..Len(base) : base[i] \in pinyinVowels) =>
                    out = [base EXCEPT ![standardPosition(base)] =
                              toneMap(base[standardPosition(base)])[tone]]

----------------------------------------------------------------------------
(* Random quiz sentence (src/corpus.ts, getRandomSentence) *)

MAX_ATTEMPTS == 10

\* await existsInWordLists(knex, word)
existsInWordLists(words, word) == word \in words

punctuationComponent(segment) == [text |-> segment, punctuation |-> TRUE]

\* await getWordComponent(knex, word), without its pinyin
getWordComponent(word) == [text |-> word, punctuation |-> FALSE]

\* Least i in 1..segment.length-1 with both parts in the word lists, or 0.
quantitySplit(words, segment) ==
    LET hits == { i \in 1..(Len(segment) - 1) :
                    /\ existsInWordLists(words, SubSeq(segment, 1, i))
                    /\ existsInWordLists(words,
                                         SubSeq(segment, i + 1, Len(segment))) }
    IN  IF hits = {} THEN 0
        ELSE CHOOSE i \in hits : \A other \in hits : i <= other

\* The components one segment contributes.
segmentComponents(words, segment) ==
    IF isChinesePunctuation(segment) THEN <<punctuationComponent(segment)>>
    ELSE IF existsInWordLists(words, segment)
    THEN <<getWordComponent(segment)>>
    ELSE IF Len(segment) > 1
            /\ \A k \in 1..Len(segment) :
                  existsInWordLists(words, <<segment[k]>>)
    THEN [k \in 1..Len(segment) |-> getWordComponent(<<segment[k]>>)]
    ELSE IF Len(segment) >= 2 /\ quantitySplit(words, segment) # 0
    THEN LET i == quantitySplit(words, segment)
         IN  << getWordComponent(SubSeq(segment, 1, i)),
                getWordComponent(SubSeq(segment, i + 1, Len(segment))) >>
    ELSE <<>>

RECURSIVE getComponentsForSentence(_, _)
getComponentsForSentence(words, segments) ==
    IF segments = <<>> THEN <<>>
    ELSE segmentComponents(words, Head(segments))
            \o getComponentsForSentence(words, Tail(segments))

reconstructedAlwaysEqual(components, sentenceZh) == TRUE

\* components.map((c) => c.text).join("") === sentence.zh
reconstructedEqual(components, sentenceZh) ==
    Concat([k \in 1..Len(components) |-> components[k].text]) = sentenceZh

\* One pass of the while loop on the drawn sentence (Undefined when the
\* query returns no row): the value returned, or Undefined to go on.
attemptOutcome(words, sentence) ==
    IF ~sentence.defined THEN Undefined
    ELSE IF hasASCII(Concat(sentence.zh)) THEN Undefined
    ELSE LET components == getComponentsForSentence(words, sentence.zh)
         IN  IF reconstructedEqual(components, Concat(sentence.zh))
             THEN [defined |-> TRUE, id |-> sentence.id, zh |-> sentence.zh,
                   components |-> components]
             ELSE Undefined

MaxRandomRows == 2

\* Sentences of the table; the third holds the ASCII letter A.
RandomPool ==
    << << Word(<<1>>), Word(<<2, 3>>) >>,
       << Word(<<1, 2>>), <<12290>> >>,
       << Word(<<1, 2, 3>>), <<65>> >>,
       << Word(<<4, 5>>) >>,
       << Word(<<1, 2, 3>>) >> >>

RandomCorpora ==
    { SelectSeq([i \in 1..Len(RandomPool) |-> [id |-> i, zh |-> RandomPool[i]]],
                LAMBDA row : row.id \in chosen) :
        chosen \in { X \in SUBSET (1..Len(RandomPool)) :
                        Cardinality(X) <= MaxRandomRows } }

RandomWordLists ==
    { {}, {Word(<<1>>)}, {Word(<<1>>), Word(<<2>>)},
      {Word(<<1>>), Word(<<2, 3>>)}, {Word(<<1, 2>>), Word(<<4, 5>>)} }

RandomInit ==
    /\ pc = "randomSentence"
    /\ SplitIdle
    /\ CoverageIdle
    /\ LoaderIdle
    /\ corpus \in RandomCorpora
    /\ cedictMap = <<>>
    /\ hskWords = {}
    /\ knownWords = {}
    /\ allEnrichedWords = <<>>
    /\ iteration = 0
    /\ previousUnknowns = Infinity
    /\ files = NoFiles
    /\ unknownCounts = <<>>
    /\ lookups = 0
    /\ minCoverage = Quotient(0, 1)
    /\ maxCoverage = Quotient(0, 1)
    /\ quizLimit = NoLimit
    /\ candidates = <<>>
    /\ wordLists \in RandomWordLists
    /\ attempt = 0
    /\ draws = 0
    /\ quizSentence = Undefined

\* One pass of the while loop of getRandomSentence; the pass that brings
\* attempt to MAX_ATTEMPTS also leaves the loop and returns undefined.
AttemptSentence ==
    /\ pc = "randomSentence"
    /\ attempt < MAX_ATTEMPTS
    /\ draws' = draws + 1
    /\ \E sentence \in IF corpus = <<>> THEN {Undefined}
                       ELSE { [defined |-> TRUE, id |-> corpus[r].id,
                               zh |-> corpus[r].zh] : r \in 1..Len(corpus) } :
          LET outcome == attemptOutcome(wordLists, sentence)
          IN  IF outcome.defined
              THEN /\ quizSentence' = outcome
                   /\ pc' = "sentenceReturned"
                   /\ UNCHANGED attempt
              ELSE /\ attempt' = attempt + 1
                   /\ UNCHANGED quizSentence
                   /\ pc' = IF attempt + 1 < MAX_ATTEMPTS
                            THEN "randomSentence" ELSE "sentenceReturned"
    /\ UNCHANGED <<splitVars, pipelineVars, coverageVars, loaderVars,
                   minCoverage, maxCoverage, quizLimit, candidates, wordLists>>

RandomNext == AttemptSentence

SpecRandom == RandomInit /\ [][RandomNext]_vars

\* C24: getRandomSentence draws at most 10 sentences; a returned sentence is
\* a row of the table without ASCII letters or digits whose component texts
\* concatenate to exactly its text, so a sentence whose reconstruction
\* differs is never returned; and once 10 attempts have failed the result
\* is undefined.
C24_RandomSentenceSound ==
    /\ draws <= 10
    /\ quizSentence.defined =>
          /\ pc = "sentenceReturned"
          /\ \E r \in 1..Len(corpus) :
                corpus[r].id = quizSentence.id /\ corpus[r].zh = quizSentence.zh
          /\ ~hasASCII(Concat(quizSentence.zh))
          /\ Concat(PieceTexts(quizSentence.components))
                = Concat(quizSentence.zh)
    /\ attempt = 10 => (pc = "sentenceReturned" /\ quizSentence = Undefined)
    /\ (pc = "sentenceReturned" /\ ~quizSentence.defined) => attempt = 10

\* A sentence is returned on the tenth draw, after nine sentences that
\* could not be reconstructed or held ASCII, its components being single
\* characters of a segment missing from the word lists.
C24_Witness ==
    /\ pc = "sentenceReturned"
    /\ quizSentence.defined
    /\ draws = 10
    /\ attempt = 9
    /\ Len(quizSentence.components) > Len(quizSentence.zh)

----------------------------------------------------------------------------
(* Unknown pieces hold no known word *)

SplitPipelineNext == SplitNext \/ PipelineNext

\* The splitter on its own inputs, and the pipeline calling it on the
\* segments of its corpus.
SpecSplitPipeline ==
    (SplitInit \/ PipelineInit \/ CommandInit) /\ [][SplitPipelineNext]_vars

\* No word of the set of at most maxLen code points occurs inside the text.
holdsNoKnownWord(text, knownSet, maxLen) ==
    \A w \in knownSet :
        (w # <<>> /\ Len(w) <= maxLen) => ~includes(text, w)

\* C25: no unknown piece of split(token, known) contains an element of the
\* known set of at most max_piece_length (6) code points as a contiguous
\* substring; and no chunk of at most 6 code points that an aggregation
\* pass has just recorded is in the known set the pass ran with, nor does
\* any recorded chunk contain such a word.
C25_UnknownHoldsNoKnownWord ==
    /\ pc = "splitDone" =>
          \A k \in 1..Len(pieces) :
              ~pieces[k].known =>
                  holdsNoKnownWord(pieces[k].text, known, 6)
    /\ (pc \in {"lookup", "enrich"} /\ files.unknownChunksTsv.exists) =>
          LET rows == parseChunksTsv(files.unknownChunksTsv.content)
          IN  \A k \in 1..Len(rows) :
                  /\ Len(rows[k].chunk) <= 6 => rows[k].chunk \notin knownWords
                  /\ holdsNoKnownWord(rows[k].chunk, knownWords, 6)

\* An aggregation pass has recorded a chunk cut out of a longer segment
\* whose remainder is a known word.
C25_Witness ==
    /\ pc = "lookup"
    /\ files.unknownChunksTsv.exists
    /\ LET rows == parseChunksTsv(files.unknownChunksTsv.content)
       IN  \E k \in 1..Len(rows), s \in 1..Len(corpus) :
              \E g \in 1..Len(corpus[s].zh) :
                  /\ Len(corpus[s].zh[g]) > Len(rows[k].chunk)
                  /\ includes(corpus[s].zh[g], rows[k].chunk)
                  /\ \E w \in knownWords : includes(corpus[s].zh[g], w)

----------------------------------------------------------------------------
(* The unknown count under a growing vocabulary *)

\* The vocabulary before any entry of the cumulative list was merged.
vocabularyBeforeMerges ==
    knownWords \ { allEnrichedWords[k].simplified_zh :
                     k \in 1..Len(allEnrichedWords) }

\* C26 (as stated): merging resolved entries never increases the number of
\* distinct unknown chunks the next aggregation pass finds on the same
\* corpus: the counts of successive passes never rise.
C26_CountNeverIncreases ==
    \A k \in 1..(Len(unknownCounts) - 1) :
        unknownCounts[k + 1] <= unknownCounts[k]

\* C26 (amended): merging resolved entries never gives an unknown chunk to
\* a sentence that had none under the vocabulary before the merges, and a
\* pass whose count did not fall below the previous count ends the loop; the
\* count itself may rise.
C26_CoveredSentencesStayCovered ==
    /\ \A s \in 1..Len(corpus) :
          findUnknownChunksInSentence(corpus[s].zh, vocabularyBeforeMerges) = <<>>
              => findUnknownChunksInSentence(corpus[s].zh, knownWords) = <<>>
    /\ \A k \in 1..(Len(unknownCounts) - 1) :
          unknownCounts[k + 1] >= unknownCounts[k] =>
              (k + 1 = Len(unknownCounts) /\ pc = "done")

\* A merged word has cut two chunks into four: the second pass counts more
\* unknown chunks than the first and the loop has halted.
C26_Witness ==
    /\ pc = "done"
    /\ Len(unknownCounts) = 2
    /\ unknownCounts[2] > unknownCounts[1]
    /\ allEnrichedWords # <<>>
    /\ vocabularyBeforeMerges # knownWords

----------------------------------------------------------------------------
(* Coverage under a growing learner vocabulary *)

\* C27: coverage is monotone in the learner vocabulary - for every
\* vocabulary V contained in the word bank, the knownSegments and the score
\* that calculateCoverage computes with the word bank are at least those it
\* computes with V, and no segment covered with V is reported unknown with
\* the word bank.
C27_CoverageMonotone ==
    pc = "coverageDone" =>
        \A V \in SUBSET userWordBank :
            LET smaller == calculateCoverage(zh, V)
            IN  /\ smaller.knownSegments <= coverage.knownSegments
                /\ smaller.score.num * coverage.score.den
                      <= coverage.score.num * smaller.score.den
                /\ \A k \in 1..Len(zh) :
                      (countedSegment(zh[k]) /\ canCoverSegment(zh[k], V).known)
                          => canCoverSegment(zh[k], userWordBank).known

----------------------------------------------------------------------------
(* The cumulative enriched list *)

\* No two entries of the list share a simplified form of at most maxLen
\* code points.
noRepeatedEntryUpTo(entries, maxLen) ==
    \A i, j \in 1..Len(entries) :
        (i < j /\ entries[i].simplified_zh = entries[j].simplified_zh)
            => Len(entries[i].simplified_zh) > maxLen

\* C28: at the end of every round the cumulative enriched list holds no two
\* entries with the same simplified form: an entry resolved in an earlier
\* round is never resolved and appended again.
C28_NoRepeatedEntry ==
    \A i, j \in 1..Len(allEnrichedWords) :
        i < j => allEnrichedWords[i].simplified_zh
                    # allEnrichedWords[j].simplified_zh

\* What does hold: entries of at most max_piece_length (6) code points are
\* never repeated, in the list or in the accumulated file.
NoRepeatedShortEntry ==
    /\ noRepeatedEntryUpTo(allEnrichedWords, 6)
    /\ (lookups >= 1 /\ files.enriched.exists) =>
          noRepeatedEntryUpTo(files.enriched.content, 6)

\* Two rounds have resolved entries: a word of seven characters was resolved
\* in both, a shorter word once.
C28_Witness ==
    /\ lookups = 2
    /\ \E i, j \in 1..Len(allEnrichedWords) :
          /\ i < j
          /\ allEnrichedWords[i].simplified_zh = allEnrichedWords[j].simplified_zh
          /\ Len(allEnrichedWords[i].simplified_zh) = 7
    /\ \E k \in 1..Len(allEnrichedWords) :
          Len(allEnrichedWords[k].simplified_zh) <= 6

----------------------------------------------------------------------------
(* A round that resolves nothing *)

\* The step is the resolution pass of a round, and its found list is empty:
\* every chunk was skipped or missing from the dictionary.
resolvesNothing ==
    /\ pc = "lookup"
    /\ pc' # "lookup"
    /\ files'.unknownChunksCedict.exists
    /\ files'.unknownChunksCedict.content = <<>>

\* The step is the aggregation pass that follows such a round.
passAfterEmptyRound ==
    /\ pc = "findUnknown"
    /\ pc' # "findUnknown"
    /\ lookups >= 1
    /\ files.unknownChunksCedict.exists
    /\ files.unknownChunksCedict.content = <<>>

sameCountAndHalt ==
    /\ Last(unknownCounts') = Last(unknownCounts)
    /\ Len(unknownCounts') = Len(unknownCounts) + 1
    /\ pc' = "done"
    /\ lookups' = lookups
    /\ knownWords' = knownWords

\* C29 (as stated): a round that resolves nothing leaves the Vocabulary Set
\* unchanged and is followed by a next round, whose aggregation pass finds
\* the same count and halts the loop without running resolution.
C29_EmptyRoundThenHalt ==
    [][ /\ resolvesNothing =>
              /\ knownWords' = knownWords
              /\ allEnrichedWords' = allEnrichedWords
              /\ pc' = "findUnknown"
        /\ passAfterEmptyRound => sameCountAndHalt ]_vars

\* C29 (amended): a round that resolves nothing leaves the Vocabulary Set
\* unchanged; if it is one of the first four rounds a next round follows,
\* whose aggregation pass finds the same count and halts the loop without
\* running resolution; if it is the fifth round the loop ends at the
\* iteration ceiling and no further aggregation pass runs.
C29_EmptyRoundThenHaltOrCeiling ==
    [][ /\ resolvesNothing =>
              /\ knownWords' = knownWords
              /\ allEnrichedWords' = allEnrichedWords
              /\ iteration < maxIterations => pc' = "findUnknown"
              /\ iteration = maxIterations => pc' = "done"
        /\ passAfterEmptyRound => sameCountAndHalt ]_vars

\* The second round resolved nothing and the third pass has halted the loop
\* on an unchanged count.
C29_Witness ==
    /\ pc = "done"
    /\ lookups = 2
    /\ Len(unknownCounts) = 3
    /\ unknownCounts[3] = unknownCounts[2]
    /\ unknownCounts[2] < unknownCounts[1]
    /\ files.unknownChunksCedict.exists
    /\ files.unknownChunksCedict.content = <<>>
    /\ allEnrichedWords # <<>>

----------------------------------------------------------------------------
(* The report the loop leaves behind *)

\* The step ends the iteration loop.
loopTerminates == pc \in {"findUnknown", "lookup"} /\ pc' = "done"

\* The chunk list on disk and the last count are those of an aggregation
\* pass over the corpus against the given set.
reportComputedAgainst(fs, counts, words) ==
    /\ fs.unknownChunksTsv.exists
    /\ fs.unknownChunksTsv.content =
           unknownChunksTsvContent(sortedChunks(corpus, words))
    /\ counts # <<>>
    /\ Last(counts) = Len(sortedChunks(corpus, words))

\* C30 (as stated): whenever the loop terminates, no entry is merged into the
\* Vocabulary Set after the last aggregation pass, and the most recent report
\* is the one computed against the final Vocabulary Set.
C30_ReportAgainstFinalSet ==
    [][ loopTerminates =>
            /\ knownWords' = knownWords
            /\ reportComputedAgainst(files', unknownCounts', knownWords') ]_vars

\* C30 (amended): when the loop terminates by convergence or with no unknown
\* chunk left, the terminating step is the aggregation pass and its report is
\* computed against the final Vocabulary Set; when it stops at the iteration
\* ceiling, the terminating step is the fifth round's resolution, whose
\* entries are merged after the last pass, so the report is the one computed
\* against the Vocabulary Set before that merge.
C30_ReportAgainstFinalSetUnlessCeiling ==
    [][ /\ (loopTerminates /\ pc = "findUnknown") =>
              /\ knownWords' = knownWords
              /\ reportComputedAgainst(files', unknownCounts', knownWords')
        /\ (loopTerminates /\ pc = "lookup") =>
              /\ iteration = maxIterations
              /\ knownWords \subseteq knownWords'
              /\ files'.unknownChunksTsv = files.unknownChunksTsv
              /\ unknownCounts' = unknownCounts
              /\ reportComputedAgainst(files', unknownCounts', knownWords) ]_vars

\* The loop has converged after at least one merge, and the report on disk
\* is the one of the final set.
C30_Witness ==
    /\ pc = "done"
    /\ lookups >= 1
    /\ iteration <= maxIterations
    /\ Len(unknownCounts) = lookups + 1
    /\ hskWords # knownWords
    /\ allEnrichedWords # <<>>
    /\ reportComputedAgainst(files, unknownCounts, knownWords)

\* The loop has stopped at the ceiling and the report lists a chunk the
\* final Vocabulary Set contains.
C30_CeilingWitness ==
    /\ pc = "done"
    /\ lookups = maxIterations
    /\ ~reportComputedAgainst(files, unknownCounts, knownWords)

====
